---- MODULE Spec2Model ----
(***************************************************************************)
(* Model of the energy-label log server's write pipeline (app/db.ts):      *)
(* the schema, the schema traversal and its emitters, the surrogate-key    *)
(* bank, the transactional query executor and insertRuns.                  *)
(*                                                                         *)
(* JavaScript strings are sequences of one-character strings, so that      *)
(* concatenation, join and replace are computed and not assumed.           *)
(* A JavaScript value is <<"string", chars>>, <<"number", n>> or           *)
(* <<"undefined">>.  A database cell is <<"null">>, <<"int", n>> or        *)
(* <<"text", chars>>.                                                      *)
(***************************************************************************)
EXTENDS Naturals, Integers, Sequences, FiniteSets, Bags, TLC

VARIABLES
    db,        \* committed rows: table -> bag of rows
    bank,      \* SurrogateKeyBank: keys, cache, pending eviction timers
    conns,     \* pool connections: owner (0 = idle) and open transaction
    task,      \* one entry per record handed to insertRuns
    outcome,   \* the promise insertRuns returned: pending, resolved, rejected
    hist,      \* history: counts used to state the claims
    cli        \* the Cli object and the position of its constructor's loop

vars == <<db, bank, conns, task, outcome, hist, cli>>

----------------------------------------------------------------------------
(* Bounds of the model *)

\* number of records handed to insertRuns
NumRuns == 2
\* connections in the pool
PoolSize == 2
\* cache evictions (timer firings) explored
MaxEvictions == 1

\* length of the text values handed to the sanitizer
MaxText == 3

\* arguments on the command line
MaxArgs == 2
\* characters after the head of an argument
MaxTail == 3

\* calls of requestKey explored when the bank is driven alone
MaxRequests == 4

\* timers that fire when the bank is driven alone
MaxExpiries == 2

\* restarts of the process explored
MaxRestarts == 1
\* calls of init() and dropTables() explored, one after the other
MaxCalls == 3
\* calls of insertRuns explored, one after the other
MaxSeq == 3

----------------------------------------------------------------------------
(* Strings *)

Str(s) == <<"string", s>>
Num(n) == <<"number", n>>
Undefined == <<"undefined">>

Digits == <<"0", "1", "2", "3", "4", "5", "6", "7", "8", "9">>

RECURSIVE NumToStr(_)
NumToStr(n) ==
    IF n < 10 THEN <<Digits[n + 1]>>
    ELSE NumToStr(n \div 10) \o <<Digits[(n % 10) + 1]>>

DigitVal(c) == (CHOOSE d \in 1..10 : Digits[d] = c) - 1
IsDigit(c) == \E d \in 1..10 : Digits[d] = c

RECURSIVE StrToNum(_)
StrToNum(s) ==
    IF Len(s) = 1 THEN DigitVal(s[1])
    ELSE 10 * StrToNum(SubSeq(s, 1, Len(s) - 1)) + DigitVal(s[Len(s)])

IsNumeric(s) == Len(s) > 0 /\ \A i \in 1..Len(s) : IsDigit(s[i])

\* String(value) for a defined value
String(v) == IF v[1] = "number" THEN NumToStr(v[2]) ELSE v[2]

\* Array.prototype.join: undefined and null elements become the empty string
RECURSIVE Join(_, _)
Join(parts, sep) ==
    IF Len(parts) = 0 THEN <<>>
    ELSE IF Len(parts) = 1 THEN parts[1]
    ELSE parts[1] \o sep \o Join(Tail(parts), sep)

----------------------------------------------------------------------------
(* Command line (app/cli.ts) *)

\* the keys that take a value
multiArgs ==
    << <<"-", "-", "h", "o", "s", "t">>,
       <<"-", "-", "p", "o", "r", "t">>,
       <<"-", "-", "m", "a", "r", "i", "a", "d", "b", "-", "u", "s",
          "e", "r">>,
       <<"-", "-", "m", "a", "r", "i", "a", "d", "b", "-", "p", "a",
          "s", "s", "w", "o", "r", "d">>,
       <<"-", "-", "m", "a", "r", "i", "a", "d", "b", "-", "d", "a",
          "t", "a", "b", "a", "s", "e">>,
       <<"-", "-", "m", "a", "r", "i", "a", "d", "b", "-", "p", "o",
          "r", "t">>,
       <<"-", "-", "m", "a", "r", "i", "a", "d", "b", "-", "h", "o",
          "s", "t">>,
       <<"-", "-", "m", "a", "r", "i", "a", "d", "b", "-", "c", "o",
          "l", "u", "m", "n", "-", "s", "t", "o", "r", "e">>,
       <<"-", "-", "m", "a", "r", "i", "a", "d", "b", "-", "c", "o",
          "n", "n", "-", "l", "i", "m", "i", "t">> >>

\* the flags
singleArgs ==
    << <<"-", "-", "h", "e", "l", "p">>,
       <<"-", "-", "m", "a", "r", "i", "a", "d", "b", "-", "i", "n",
          "i", "t">>,
       <<"-", "-", "m", "a", "r", "i", "a", "d", "b", "-", "i", "n",
          "s", "e", "r", "t", "-", "t", "e", "s", "t", "-", "r", "u",
          "n">>,
       <<"-", "-", "m", "a", "r", "i", "a", "d", "b", "-", "u", "n",
          "s", "a", "f", "e", "-", "d", "r", "o", "p", "-", "t", "a",
          "b", "l", "e", "s">> >>

Range(q) == {q[i] : i \in 1..Len(q)}

\* String.prototype.split with a one-character separator
RECURSIVE Split(_, _)
Split(s, sep) ==
    IF \A i \in 1..Len(s) : s[i] # sep THEN <<s>>
    ELSE LET p == CHOOSE i \in 1..Len(s) :
                     s[i] = sep /\ \A j \in 1..(i - 1) : s[j] # sep
         IN  <<SubSeq(s, 1, p - 1)>> \o Split(SubSeq(s, p + 1, Len(s)), sep)

\* const [key, value] = arg.split("=")
KeyOf(arg) == Split(arg, "=")[1]
ValueOf(arg) ==
    LET parts == Split(arg, "=") IN
    IF Len(parts) >= 2 THEN Str(parts[2]) ELSE Undefined

Null == <<"null">>

\* the Cli object when its constructor enters the loop over cliInput; exit
\* is <<>> while the process runs and <<code>> after process.exit(code)
NewCli(cliInput) ==
    [input |-> cliInput, pos |-> 1,
     args |-> [k \in Range(multiArgs) |-> Null], exit |-> <<>>]

\* Fallback.get(...fields): the first field that is set, or the default
RECURSIVE get(_, _, _)
get(args, def, fields) ==
    IF Len(fields) = 0 THEN def
    ELSE IF args[fields[1]] # Null THEN args[fields[1]][2]
    ELSE get(args, def, Tail(fields))

----------------------------------------------------------------------------
(* Tables and schema *)

Tables == {"PluginName", "Plugin", "BrowserName", "Browser", "Domain",
           "ErrorMessage", "Url", "Fact"}

DimTables == Tables \ {"Fact"}

\* the enum's string values, as they are concatenated into cache keys
TableChars ==
    [PluginName   |-> <<"P","l","u","g","i","n","N","a","m","e">>,
     Plugin       |-> <<"P","l","u","g","i","n">>,
     BrowserName  |-> <<"B","r","o","w","s","e","r","N","a","m","e">>,
     Browser      |-> <<"B","r","o","w","s","e","r">>,
     Domain       |-> <<"D","o","m","a","i","n">>,
     ErrorMessage |-> <<"E","r","r","o","r","M","e","s","s","a","g","e">>,
     Url          |-> <<"U","r","l">>,
     Fact         |-> <<"F","a","c","t">>]

IntField(n, k) == [dbtype |-> "Int", name |-> n, runkey |-> k]
TextField(n, k) == [dbtype |-> "Text", name |-> n, runkey |-> k]
FKField(n, t, c) ==
    [dbtype |-> "ForeignKey", name |-> n, table |-> t, child_key |-> "id",
     child |-> c]
OptionalFKField(n, t, o, c) ==
    [dbtype |-> "ForeignKey", name |-> n, table |-> t, child_key |-> "id",
     child |-> c, optional |-> o]

schema ==
    << IntField("score", "score"),
       IntField("status_code", "statusCode"),
       OptionalFKField("error_message", "ErrorMessage", "errorMessage",
           << TextField("error_message", "errorMessage") >>),
       FKField("plugin_id", "Plugin",
           << TextField("version", "pluginVersion"),
              TextField("extention_version", "extensionVersion"),
              FKField("plugin_name_id", "PluginName",
                  << TextField("name", "pluginName") >>) >>),
       FKField("browser_id", "Browser",
           << TextField("version", "browserVersion"),
              FKField("browser_name_id", "BrowserName",
                  << TextField("browser_name", "browserName") >>) >>),
       FKField("url_id", "Url",
           << TextField("path", "path"),
              FKField("domain_id", "Domain",
                  << TextField("domain", "url") >>) >>) >>

dummyParent ==
    [dbtype |-> "ForeignKey", name |-> "fact", table |-> "Fact",
     child_key |-> "id", child |-> schema]

\* every foreign-key node of a schema, nested ones included
RECURSIVE FKNodes(_)
FKNodes(s) ==
    UNION { IF s[i].dbtype = "ForeignKey"
            THEN {s[i]} \cup FKNodes(s[i].child)
            ELSE {} : i \in 1..Len(s) }

\* the foreign-key node that names each table
TableNode ==
    [t \in Tables |-> IF t = "Fact" THEN dummyParent
                      ELSE CHOOSE f \in FKNodes(schema) : f.table = t]

\* run[key], undefined when the record has no such property
Get(run, k) == IF k \in DOMAIN run THEN run[k] ELSE Undefined

EmptyMap == [k \in {} |-> <<>>]

\* object spread {...a, ...b}
Merge(a, b) ==
    [k \in DOMAIN a \cup DOMAIN b |-> IF k \in DOMAIN b THEN b[k] ELSE a[k]]

----------------------------------------------------------------------------
(* Sanitizer and literal emission *)

\* s.replace("'", "\\'"): a string pattern replaces the first occurrence only
sanitize(s) ==
    IF \E i \in 1..Len(s) : s[i] = "'"
    THEN LET i == CHOOSE j \in 1..Len(s) :
                     s[j] = "'" /\ \A k \in 1..(j - 1) : s[k] # "'"
         IN  SubSeq(s, 1, i - 1) \o <<"\\", "'">> \o SubSeq(s, i + 1, Len(s))
    ELSE s

NullToken == <<"N", "U", "L", "L">>

valueOrNull(value) ==
    IF value = Undefined THEN NullToken
    ELSE <<"'">> \o sanitize(String(value)) \o <<"'">>

\* valueOrNull(surrogateKeys[table]) for a map that may lack the table
KeyOrNull(surrogateKeys, t) ==
    IF t \in DOMAIN surrogateKeys THEN valueOrNull(Num(surrogateKeys[t]))
    ELSE NullToken

----------------------------------------------------------------------------
(* Surrogate-key bank *)

\* a timer that empties the cache when it fires
EvictEntryAll(b) ==
    [b EXCEPT !.cache = EmptyMap, !.timers = Tail(b.timers)]

\* the closure scheduled by setTimeout in requestKey, when it fires: timers
\* of one delay fire in the order they were set, so it is the oldest one
EvictEntry(b) ==
    LET cacheKey == Head(b.timers) IN
    [b EXCEPT !.cache = [k \in DOMAIN b.cache \ {cacheKey} |-> b.cache[k]],
              !.timers = Tail(b.timers)]

\* a bank that hands out the counter's value without advancing it
requestKeyNoCount(b, key, value) ==
    LET cacheKey == TableChars[key] \o value IN
    IF cacheKey \in DOMAIN b.cache
    THEN [value |-> b.cache[cacheKey], hit |-> TRUE, bank |-> b]
    ELSE LET newKey == b.keys[key] IN
         [value |-> newKey, hit |-> FALSE,
          bank |-> [keys   |-> b.keys,
                    cache  |-> Merge(b.cache, [k \in {cacheKey} |-> newKey]),
                    timers |-> Append(b.timers, cacheKey)]]

\* a bank without a cache: every request is a miss
requestKeyNoCache(b, key, value) ==
    LET newKey == b.keys[key] + 1 IN
    [value |-> newKey, hit |-> FALSE,
     bank |-> [b EXCEPT !.keys = [b.keys EXCEPT ![key] = newKey]]]

\* a bank whose hits set a new timer for the entry
requestKeyHitRenews(b, key, value) ==
    LET cacheKey == TableChars[key] \o value IN
    IF cacheKey \in DOMAIN b.cache
    THEN [value |-> b.cache[cacheKey], hit |-> TRUE,
          bank |-> [b EXCEPT !.timers = Append(@, cacheKey)]]
    ELSE LET newKey == b.keys[key] + 1 IN
         [value |-> newKey, hit |-> FALSE,
          bank |-> [keys   |-> [b.keys EXCEPT ![key] = newKey],
                    cache  |-> Merge(b.cache, [k \in {cacheKey} |-> newKey]),
                    timers |-> Append(b.timers, cacheKey)]]

requestKey(b, key, value) ==
    LET cacheKey == TableChars[key] \o value IN
    IF cacheKey \in DOMAIN b.cache
    THEN [value |-> b.cache[cacheKey], hit |-> TRUE, bank |-> b]
    ELSE LET newKey == b.keys[key] + 1 IN
         [value |-> newKey, hit |-> FALSE,
          bank |-> [keys   |-> [b.keys EXCEPT ![key] = newKey],
                    cache  |-> Merge(b.cache, [k \in {cacheKey} |-> newKey]),
                    timers |-> Append(b.timers, cacheKey)]]

RECURSIVE createCacheKey(_, _)
createCacheKey(s, run) ==
    Join([i \in 1..Len(s) |->
            IF s[i].dbtype = "ForeignKey"
            THEN createCacheKey(s[i].child, run)
            ELSE LET v == Get(run, s[i].runkey) IN
                 IF v = Undefined THEN <<>> ELSE String(v)],
         <<"#">>)

----------------------------------------------------------------------------
(* Emitters.  A statement is kept as its parts, each literal as the text   *)
(* valueOrNull produced for it.                                            *)

\* columns and literals with NULL in every foreign-key column
keysAndValuesNoKeys(s, run, surrogateKeys) ==
    << [i \in 1..Len(s) |-> s[i].name],
       [i \in 1..Len(s) |->
            IF s[i].dbtype = "ForeignKey" THEN NullToken
            ELSE valueOrNull(Get(run, s[i].runkey))] >>

keysAndValues(s, run, surrogateKeys) ==
    << [i \in 1..Len(s) |-> s[i].name],
       [i \in 1..Len(s) |->
            IF s[i].dbtype = "ForeignKey"
            THEN KeyOrNull(surrogateKeys, s[i].table)
            ELSE valueOrNull(Get(run, s[i].runkey))] >>

\* a fact emitter that leaves the Fact statement out when no dimension of the
\* record was missing from the cache
insertFactOnMiss(s, parent, run, options) ==
    IF \A n \in 1..Len(options.reqs) : options.reqs[n].hit THEN EmptyMap
    ELSE LET kv == keysAndValues(s, run, options.keys) IN
         [t \in {parent.table} |->
            [op |-> "INSERT", table |-> parent.table,
             cols |-> kv[1], vals |-> kv[2]]]

\* the fact emitter of insertRun
insertFact(s, parent, run, options) ==
    LET kv == keysAndValues(s, run, options.keys) IN
    [t \in {parent.table} |->
        [op |-> "INSERT", table |-> parent.table,
         cols |-> kv[1], vals |-> kv[2]]]

\* the dimension emitter of insertRun
insertDimension(s, parent, run, options) ==
    LET kv == keysAndValues(s, run, options.keys) IN
    [t \in {parent.table} |->
        [op |-> "INSERT", table |-> parent.table,
         cols |-> Append(kv[1], parent.child_key),
         vals |-> Append(kv[2], KeyOrNull(options.keys, parent.table))]]

\* a condition that has the dimension inserted on a cache hit too
insertConditionAlways(s, parent, run, options) ==
    IF parent.table = "Fact" THEN [ok |-> TRUE, options |-> options]
    ELSE IF parent.table \in DOMAIN options.keys
    THEN [ok |-> FALSE, options |-> options]
    ELSE LET ck == createCacheKey(s, run)
             r  == requestKey(options.bank, parent.table, ck)
         IN  [ok |-> TRUE,
              options |->
                [keys |-> Merge(options.keys,
                                [t \in {parent.table} |-> r.value]),
                 bank |-> r.bank,
                 reqs |-> Append(options.reqs,
                                 [table |-> parent.table, content |-> ck,
                                  value |-> r.value, hit |-> r.hit])]]

\* a condition that asks the bank whatever the lookup produced
insertConditionNoLookup(s, parent, run, options) ==
    IF parent.table = "Fact" THEN [ok |-> TRUE, options |-> options]
    ELSE LET ck == createCacheKey(s, run)
             r  == requestKey(options.bank, parent.table, ck)
         IN  [ok |-> ~r.hit,
              options |->
                [keys |-> Merge(options.keys,
                                [t \in {parent.table} |-> r.value]),
                 bank |-> r.bank,
                 reqs |-> Append(options.reqs,
                                 [table |-> parent.table, content |-> ck,
                                  value |-> r.value, hit |-> r.hit])]]

\* the condition of insertRun: it asks the bank and records the id
insertCondition(s, parent, run, options) ==
    IF parent.table = "Fact" THEN [ok |-> TRUE, options |-> options]
    ELSE IF parent.table \in DOMAIN options.keys
    THEN [ok |-> FALSE, options |-> options]
    ELSE LET ck == createCacheKey(s, run)
             r  == requestKey(options.bank, parent.table, ck)
         IN  [ok |-> ~r.hit,
              options |->
                [keys |-> Merge(options.keys,
                                [t \in {parent.table} |-> r.value]),
                 bank |-> r.bank,
                 reqs |-> Append(options.reqs,
                                 [table |-> parent.table, content |-> ck,
                                  value |-> r.value, hit |-> r.hit])]]

RECURSIVE innerJoin(_, _)
innerJoin(s, table) ==
    IF Len(s) = 0 THEN <<>>
    ELSE (IF s[1].dbtype = "ForeignKey"
          THEN << [table |-> s[1].table, on |-> table, col |-> s[1].name,
                   child_key |-> s[1].child_key] >>
               \o innerJoin(s[1].child, s[1].table)
          ELSE <<>>)
         \o innerJoin(Tail(s), table)

RECURSIVE joinWhere(_, _, _)
joinWhere(s, table, value) ==
    IF Len(s) = 0 THEN <<>>
    ELSE (IF s[1].dbtype = "ForeignKey"
          THEN joinWhere(s[1].child, s[1].table, value)
          ELSE << [table |-> table, col |-> s[1].name,
                   lit |-> valueOrNull(Get(value, s[1].runkey))] >>)
         \o joinWhere(Tail(s), table, value)

getKeysQuery(s, table, id_name, value) ==
    [op |-> "SELECT_MAX", table |-> table, id |-> id_name,
     joins |-> innerJoin(s, table), where |-> joinWhere(s, table, value)]

\* a lookup emitter that writes the dimension instead of reading it
getKeysDimensionInserts(s, parent, value, options) ==
    insertDimension(s, parent, value, options)

\* the dimension emitter of getKeys
getKeysDimension(s, parent, value, options) ==
    [t \in {parent.table} |->
        getKeysQuery(s, parent.table, parent.child_key, value)]

----------------------------------------------------------------------------
(* Schema traversal.  mode names the instance of traverseSchema:           *)
(* its emitters, its allwaysExtend flag and its condition.                 *)

\* the flag of compileTables and dropTables, given to every instance
\* createTable(hasId): CREATE TABLE T( [id INT UNSIGNED,] columns )
createTable(hasId, s, parent) ==
    LET own == [n \in 1..Len(s) |-> s[n].name]
        typ == [n \in 1..Len(s) |->
                  IF s[n].dbtype = "Text" THEN "TINYTEXT" ELSE "INT UNSIGNED"]
    IN  [t \in {parent.table} |->
            [op |-> "CREATE", table |-> parent.table,
             cols |-> IF hasId THEN <<parent.child_key>> \o own ELSE own,
             types |-> IF hasId THEN <<"INT UNSIGNED">> \o typ ELSE typ]]

\* a drop emitter that leaves the dimension tables alone
createDropFactOnly(parent) ==
    IF parent.table = "Fact"
    THEN [t \in {parent.table} |-> [op |-> "DROP", table |-> parent.table]]
    ELSE EmptyMap

\* createDropTableQuery: DROP TABLE T;
createDropTableQuery(parent) ==
    [t \in {parent.table} |-> [op |-> "DROP", table |-> parent.table]]

allwaysExtendAll(mode) == TRUE

allwaysExtend(mode) == mode # "insertRun" /\ mode # "getKeys"

condition(mode, s, parent, val, options) ==
    IF mode = "insertRun" THEN insertCondition(s, parent, val, options)
    ELSE [ok |-> TRUE, options |-> options]

factEmitter(mode, s, parent, val, options) ==
    IF mode = "insertRun" THEN insertFact(s, parent, val, options)
    ELSE IF mode = "compileTables" THEN createTable(FALSE, s, parent)
    ELSE IF mode = "dropTables" THEN createDropTableQuery(parent)
    ELSE EmptyMap

dimensionEmitter(mode, s, parent, val, options) ==
    IF mode = "insertRun" THEN insertDimension(s, parent, val, options)
    ELSE IF mode = "getKeys" THEN getKeysDimension(s, parent, val, options)
    ELSE IF mode = "compileTables" THEN createTable(TRUE, s, parent)
    ELSE IF mode = "dropTables" THEN createDropTableQuery(parent)
    ELSE EmptyMap

RECURSIVE traverseSchema(_, _, _, _, _, _)
RECURSIVE traverseChildren(_, _, _, _, _)

\* the loop over the fields of one level; acc is [stmt, options]
traverseChildren(mode, s, i, val, acc) ==
    IF i > Len(s) THEN acc
    ELSE
    LET field == s[i] IN
    IF field.dbtype = "ForeignKey"
       /\ (allwaysExtend(mode)
           \/ "optional" \notin DOMAIN field
           \/ field.optional \in DOMAIN val)
    THEN LET c == condition(mode, field.child, field, val, acc.options) IN
         IF c.ok
         THEN LET sub == traverseSchema(mode, FALSE, field.child, field, val,
                                        c.options)
              IN  traverseChildren(mode, s, i + 1, val,
                      [stmt |-> Merge(acc.stmt, sub.stmt),
                       options |-> sub.options])
         ELSE traverseChildren(mode, s, i + 1, val,
                      [stmt |-> acc.stmt, options |-> c.options])
    ELSE traverseChildren(mode, s, i + 1, val, acc)

\* isRoot: the fact emitter is used at this level, the dimension one below
traverseSchema(mode, isRoot, s, parent, val, options) ==
    LET kids == traverseChildren(mode, s, 1, val,
                                 [stmt |-> EmptyMap, options |-> options])
        self == IF isRoot
                THEN factEmitter(mode, s, parent, val, kids.options)
                ELSE dimensionEmitter(mode, s, parent, val, kids.options)
    IN  [stmt |-> Merge(kids.stmt, self), options |-> kids.options]

\* compileTables(schema, dummyParent, {}, {}) of DB.init
compileTables ==
    traverseSchema("compileTables", TRUE, schema, dummyParent, EmptyMap,
                   EmptyMap).stmt

\* dropTables(schema, dummyParent, {}, {}) of DB.dropTables
dropTables ==
    traverseSchema("dropTables", TRUE, schema, dummyParent, EmptyMap,
                   EmptyMap).stmt

insertRun(run, surrogateKeys, b) ==
    traverseSchema("insertRun", TRUE, schema, dummyParent, run,
                   [keys |-> surrogateKeys, bank |-> b, reqs |-> <<>>])

getKeys(run) ==
    traverseSchema("getKeys", TRUE, schema, dummyParent, run,
                   [keys |-> EmptyMap]).stmt

----------------------------------------------------------------------------
(* The database, as the statements above reach it: literals are parsed     *)
(* back from their text, cells are converted to the column type that       *)
(* createTable declares.                                                    *)

NullCell == <<"null">>

\* the characters of a quoted literal from position i on; acc is the value
RECURSIVE ScanLiteral(_, _, _)
ScanLiteral(lit, i, acc) ==
    IF i > Len(lit) THEN [ok |-> FALSE, cell |-> NullCell]
    ELSE IF lit[i] = "\\"
    THEN IF i + 1 > Len(lit) THEN [ok |-> FALSE, cell |-> NullCell]
         ELSE ScanLiteral(lit, i + 2, Append(acc, lit[i + 1]))
    ELSE IF lit[i] = "'"
    THEN IF i = Len(lit) THEN [ok |-> TRUE, cell |-> <<"text", acc>>]
         ELSE [ok |-> FALSE, cell |-> NullCell]
    ELSE ScanLiteral(lit, i + 1, Append(acc, lit[i]))

\* a literal as the server reads it: NULL, or a quoted string with \ escapes;
\* anything else (an unterminated or early-terminated string) is a syntax error
ParseLiteral(lit) ==
    IF lit = NullToken THEN [ok |-> TRUE, cell |-> NullCell]
    ELSE IF Len(lit) > 0 /\ lit[1] = "'" THEN ScanLiteral(lit, 2, <<>>)
    ELSE [ok |-> FALSE, cell |-> NullCell]

\* column types of createTable: INT UNSIGNED for Int, foreign keys and the
\* child key, TINYTEXT for Text
TextCols ==
    [t \in Tables |->
        LET s == TableNode[t].child IN
        {s[i].name : i \in {j \in 1..Len(s) : s[j].dbtype = "Text"}}]

ColType(table, col) == IF col \in TextCols[table] THEN "text" ELSE "int"

\* the cell stored in (or compared with) a column of that type
Coerce(type, parsed) ==
    IF ~parsed.ok THEN parsed
    ELSE IF parsed.cell = NullCell \/ type = "text" THEN parsed
    ELSE IF IsNumeric(parsed.cell[2])
    THEN [ok |-> TRUE, cell |-> <<"int", StrToNum(parsed.cell[2])>>]
    ELSE [ok |-> FALSE, cell |-> NullCell]

\* INSERT INTO table (cols) VALUES (vals): the row, or a statement error
ExecInsert(stmt) ==
    LET cells == [i \in 1..Len(stmt.cols) |->
                    Coerce(ColType(stmt.table, stmt.cols[i]),
                           ParseLiteral(stmt.vals[i]))]
    IN  [ok  |-> \A i \in 1..Len(cells) : cells[i].ok,
         row |-> [c \in {stmt.cols[i] : i \in 1..Len(stmt.cols)} |->
                    cells[CHOOSE i \in 1..Len(stmt.cols) :
                              stmt.cols[i] = c].cell]]

\* the rows of `table` that satisfy the WHERE terms on the table and join,
\* through every INNER JOIN below it, a row of the child that does so too
RECURSIVE RowsMatching(_, _, _)
RowsMatching(d, stmt, table) ==
    { r \in BagToSet(d[table]) :
        /\ \A i \in 1..Len(stmt.where) :
              stmt.where[i].table = table =>
                LET w == stmt.where[i]
                    c == Coerce(ColType(table, w.col), ParseLiteral(w.lit))
                IN  c.cell # NullCell /\ r[w.col] = c.cell
        /\ \A i \in 1..Len(stmt.joins) :
              stmt.joins[i].on = table =>
                LET j == stmt.joins[i] IN
                \E c \in RowsMatching(d, stmt, j.table) :
                    r[j.col] # NullCell /\ r[j.col] = c[j.child_key] }

SetMax(S) == CHOOSE m \in S : \A x \in S : x <= m

\* SELECT MAX(table.id) AS id ...: one row, id NULL when nothing matches
ExecSelect(d, stmt) ==
    LET ids == { r[stmt.id][2] : r \in
                   { q \in RowsMatching(d, stmt, stmt.table) :
                       q[stmt.id] # NullCell } }
    IN  [ok   |-> \A i \in 1..Len(stmt.where) :
                      ParseLiteral(stmt.where[i].lit).ok,
         rows |-> << [id |-> IF ids = {} THEN <<"null">>
                             ELSE Num(SetMax(ids))] >>]

\* zIdResponse: an array of {id: numeric string | null | number}
zIdResponse(rows) ==
    LET good(v) == \/ v = <<"null">>
                   \/ v[1] = "number"
                   \/ v[1] = "string" /\ IsNumeric(v[2])
        conv(v) == IF v[1] = "string" THEN Num(StrToNum(v[2])) ELSE v
    IN  [success |-> \A i \in 1..Len(rows) : good(rows[i].id),
         data    |-> [i \in 1..Len(rows) |-> [id |-> conv(rows[i].id)]]]

\* a mapper that finds no id in any result
lookupMapperNone(a) == Undefined

\* the mapper of the lookup: a.length === 0 ? undefined : a[0].id ?? undefined
lookupMapper(a) ==
    IF Len(a) = 0 THEN Undefined
    ELSE IF a[1].id = <<"null">> THEN Undefined ELSE a[1].id

\* the rows a COMMIT makes visible
ApplyTxn(d, txn) ==
    [t \in DOMAIN d |->
        IF t \in DOMAIN txn THEN d[t] (+) SetToBag({txn[t]}) ELSE d[t]]

----------------------------------------------------------------------------
(* Records handed to insertRuns *)

Without(run, k) == [f \in DOMAIN run \ {k} |-> run[f]]

\* a record with every field (insertTestRun's first record, shortened)
RunA ==
    [score            |-> Num(10),
     statusCode       |-> Num(3),
     errorMessage     |-> Str(<<"i", "t", "'", "s">>),
     browserName      |-> Str(<<"b">>),
     browserVersion   |-> Str(<<"1">>),
     pluginVersion    |-> Str(<<"2">>),
     pluginName       |-> Str(<<"n">>),
     path             |-> Str(<<"p", "#", "q">>),
     url              |-> Str(<<"u">>),
     extensionVersion |-> Str(<<"0">>)]

\* the same record without errorMessage (insertTestRun's second record)
RunB == Without(RunA, "errorMessage")

\* the same record with another pluginName
RunC == [RunA EXCEPT !.pluginName = Str(<<"o">>)]

\* another path and another url, with the '#' on the other side
RunH == [RunB EXCEPT !.path = Str(<<"p">>), !.url = Str(<<"q", "#", "u">>)]

Fixtures == <<RunA, RunB, RunC, RunH>>

\* RunA with another browserName, and with another url
RunD == [RunA EXCEPT !.browserName = Str(<<"c">>)]
RunE == [RunA EXCEPT !.url = Str(<<"v">>)]

\* RunH with another pluginName
RunI == [RunH EXCEPT !.pluginName = Str(<<"o">>)]

SeqFixtures == Fixtures \o <<RunD, RunE, RunI>>

\* RunA with another path, and with another pluginVersion: the nested
\* dimension is the one of RunA, the dimension above it is new
RunP == [RunA EXCEPT !.path = Str(<<"r">>)]
RunV == [RunA EXCEPT !.pluginVersion = Str(<<"3">>)]

NestFixtures == <<RunA, RunB, RunC, RunP, RunV>>

\* RunV with the path of RunP
RunVP == [RunV EXCEPT !.path = Str(<<"r">>)]

\* three records of one call: the second brings a new Plugin, the third
\* shares it and brings a new Url
TrioFixtures == <<RunA, RunV, RunVP>>

----------------------------------------------------------------------------
(* State *)

\* the records in flight
Tasks == DOMAIN task
Conns == 1..PoolSize

IdleConn == [owner |-> 0, txn |-> EmptyMap]

NewTask ==
    [run |-> EmptyMap, state |-> "NEW", step |-> "none", conn |-> 0,
     queries |-> EmptyMap, results |-> EmptyMap, keys |-> EmptyMap,
     reqs |-> <<>>, err |-> "none", cls |-> "none", acq |-> 0, rel |-> 0,
     fault |-> FALSE]

\* SurrogateKeyBank after DB.new(): initKeys has set every counter to
\* COALESCE(MAX(id), 0) of its table
SeededBank(d) ==
    [keys   |-> [t \in DimTables |->
                   LET ids == {r["id"][2] : r \in BagToSet(d[t])} IN
                   IF ids = {} THEN 0 ELSE SetMax(ids)],
     cache  |-> EmptyMap,
     timers |-> <<>>]

EmptyDB == [t \in Tables |-> EmptyBag]

Init ==
    /\ db = EmptyDB
    /\ bank = SeededBank(db)
    /\ conns = [c \in Conns |-> IdleConn]
    /\ task = [i \in 1..NumRuns |-> NewTask]
    /\ outcome = "pending"
    /\ hist = [evictions |-> 0]
    /\ cli = NewCli(<<>>)

\* the record's function has returned or thrown
Terminal(i) == task[i].state \in {"COMMITTED", "ROLLED_BACK"}

----------------------------------------------------------------------------
(* DB.query, one action per await *)

\* Promise.all over the records: rejected by the first rejection, resolved
\* when every record's pipeline has resolved
SettleAll(tk, old) ==
    IF old # "pending" THEN old
    ELSE IF \E i \in DOMAIN tk : tk[i].state = "ROLLED_BACK" THEN "rejected"
    ELSE IF \A i \in DOMAIN tk : tk[i].state = "COMMITTED" THEN "resolved"
    ELSE "pending"

\* the promise of the call settles and the record's function continues:
\* it throws on a rejection, keeps the lookup's ids, or finishes
Settle(t) ==
    IF t.err # "none"
    THEN [t EXCEPT !.state = "ROLLED_BACK", !.step = "none",
                   !.results = EmptyMap]
    ELSE IF t.state = "LOOKUP_ISSUED"
    THEN [t EXCEPT !.state = "LOOKUP_RESOLVED", !.step = "none",
                   !.keys = t.results]
    ELSE [t EXCEPT !.state = "COMMITTED", !.step = "none"]

\* finally { if (conn !== null) await conn.end(); }
Finally(t) ==
    IF t.conn # 0 THEN [t EXCEPT !.step = "end"] ELSE Settle(t)

\* a catch block that rethrows without rolling back
CatchNoRollback(t) == Finally([t EXCEPT !.err = "e"])

\* a catch block that rolls back and swallows the error
CatchSwallow(t) ==
    IF t.conn # 0 THEN [t EXCEPT !.step = "rollback"] ELSE Finally(t)

\* a catch block that commits what the statements have written
CatchCommits(t) ==
    LET u == [t EXCEPT !.err = "e"] IN
    IF u.conn # 0 THEN [u EXCEPT !.step = "commit"] ELSE Finally(u)

\* catch (e) { if (conn !== null) await conn.rollback(); throw e; }
\* err is "e" while the error of the try block is the one being thrown
Catch(t) ==
    LET u == [t EXCEPT !.err = "e"] IN
    IF u.conn # 0 THEN [u EXCEPT !.step = "rollback"] ELSE Finally(u)

\* the try block throws: the catch block is entered (fault is history: the
\* driver reported an error to this record; cls is the class of the error
\* the call rejects with, SqlError for the driver's, ZodError for zod's)
Throw(t) == Catch([t EXCEPT !.fault = TRUE])

\* a rollback error that leaves the function past the finally block
RollbackThrowsNoFinally(t) ==
    Settle([t EXCEPT !.err = "rollback", !.cls = "SqlError"])

\* conn.rollback() rejected inside the catch block: its error is thrown
\* instead of e, and the finally block still runs
RollbackThrows(t) == Finally([t EXCEPT !.err = "rollback", !.cls = "SqlError"])

\* an insertRuns that makes no lookup call: every record goes on to its
\* insert call with no id found
insertRunsNoLookup(runs) ==
    /\ \A i \in Tasks : task[i].state = "NEW"
    /\ task' = [i \in Tasks |->
                  [NewTask EXCEPT !.run = runs[i],
                                  !.state = "LOOKUP_RESOLVED"]]
    /\ UNCHANGED <<db, bank, conns, outcome, hist, cli>>

\* insertRuns(...runs): every record's function runs up to its first await,
\* pool.getConnection() of the lookup call
insertRuns(runs) ==
    /\ \A i \in Tasks : task[i].state = "NEW"
    /\ task' = [i \in Tasks |->
                  [NewTask EXCEPT !.run = runs[i],
                                  !.state = "LOOKUP_ISSUED",
                                  !.step = "acquire",
                                  !.queries = getKeys(runs[i])]]
    /\ UNCHANGED <<db, bank, conns, outcome, hist, cli>>

LowestIdle == CHOOSE c \in Conns :
                 conns[c].owner = 0 /\ \A k \in Conns :
                    conns[k].owner = 0 => c <= k

\* getConnection resolves; beginTransaction and every statement are sent.
\* START TRANSACTION commits whatever transaction the connection has open.
AcquireOk(i) ==
    /\ task[i].step = "acquire"
    /\ \E c \in Conns : conns[c].owner = 0
    /\ LET c == LowestIdle IN
       /\ db' = ApplyTxn(db, conns[c].txn)
       /\ conns' = [conns EXCEPT ![c] = [owner |-> i, txn |-> EmptyMap]]
       /\ task' = [task EXCEPT ![i].step = "stmts", ![i].conn = c,
                               ![i].acq = @ + 1]
    /\ UNCHANGED <<bank, outcome, hist, cli>>

\* a failure of getConnection that gives the ids of the record back: the
\* counters are lowered and the entries are taken out of the cache
AcquireFailReverts(i) ==
    /\ task[i].step = "acquire"
    /\ task' = [task EXCEPT ![i] = Throw([task[i] EXCEPT !.cls = "SqlError"])]
    /\ outcome' = SettleAll(task', outcome)
    /\ LET reqs == task[i].reqs
           miss == {n \in 1..Len(reqs) : ~reqs[n].hit}
           gone == {TableChars[reqs[n].table] \o reqs[n].content : n \in miss}
       IN  bank' = [bank EXCEPT
                      !.keys = [t \in DOMAIN @ |->
                                  @[t] - Cardinality({n \in miss :
                                                        reqs[n].table = t})],
                      !.cache = [k \in DOMAIN @ \ gone |-> @[k]]]
    /\ UNCHANGED <<db, conns, hist, cli>>

\* getConnection rejects: conn is still null
AcquireFail(i) ==
    /\ task[i].step = "acquire"
    /\ task' = [task EXCEPT ![i] = Throw([task[i] EXCEPT !.cls = "SqlError"])]
    /\ outcome' = SettleAll(task', outcome)
    /\ UNCHANGED <<db, bank, conns, hist, cli>>

\* the result the statement of table k gets from the server
ExecStmt(d, q) ==
    IF q.op = "INSERT" THEN ExecInsert(q) ELSE ExecSelect(d, q)

\* validator and mapper of the call, applied to one well-formed result
MapResult(q, r) ==
    IF q.op = "SELECT_MAX" THEN lookupMapper(zIdResponse(r.rows).data)
    ELSE Undefined

\* the rows written by the INSERTs of a statement map, but those of `skip`
Writes(queries, res, skip) ==
    LET ins == {k \in DOMAIN queries \ skip :
                   queries[k].op = "INSERT" /\ res[k].ok}
    IN  [k \in ins |-> res[k].row]

\* results.reduce(...): table -> mapped result; undefined entries are the
\* tables without an id
Reduce(queries, res) ==
    LET m == [k \in DOMAIN queries |-> MapResult(queries[k], res[k])]
    IN  [k \in {x \in DOMAIN m : m[x] # Undefined} |-> m[k][2]]

\* Promise.all resolves: every statement succeeded and every result passed
\* validator and mapper; conn.commit() is sent
StmtsOk(i) ==
    /\ task[i].step = "stmts"
    /\ LET q == task[i].queries
           c == task[i].conn
           res == [k \in DOMAIN q |-> ExecStmt(db, q[k])]
       IN  /\ \A k \in DOMAIN q : res[k].ok
           /\ \A k \in DOMAIN q :
                 q[k].op = "SELECT_MAX" => zIdResponse(res[k].rows).success
           /\ conns' = [conns EXCEPT ![c].txn = Writes(q, res, {})]
           /\ task' = [task EXCEPT ![i].step = "commit",
                                   ![i].results = Reduce(q, res)]
    /\ UNCHANGED <<db, bank, outcome, hist, cli>>

\* Promise.all rejects because the statement of table k failed; the other
\* statements were sent on the same connection and have run
StmtsFail(i, k) ==
    /\ task[i].step = "stmts"
    /\ k \in DOMAIN task[i].queries
    /\ LET q == task[i].queries
           res == [x \in DOMAIN q |-> ExecStmt(db, q[x])]
       IN  conns' = [conns EXCEPT ![task[i].conn].txn = Writes(q, res, {k})]
    /\ task' = [task EXCEPT ![i] = Throw([task[i] EXCEPT !.cls = "SqlError"])]
    /\ outcome' = SettleAll(task', outcome)
    /\ UNCHANGED <<db, bank, hist, cli>>

\* Promise.all rejects because zIdResponse.parse threw on the result of
\* table k (the validator of the insert call is the identity)
ValidatorFail(i, k) ==
    /\ task[i].step = "stmts"
    /\ k \in DOMAIN task[i].queries
    /\ task[i].queries[k].op = "SELECT_MAX"
    /\ task' = [task EXCEPT ![i] = Throw([task[i] EXCEPT !.cls = "ZodError"])]
    /\ outcome' = SettleAll(task', outcome)
    /\ UNCHANGED <<db, bank, conns, hist, cli>>

\* conn.commit() resolves: the rows become visible; the finally block runs
CommitOk(i) ==
    /\ task[i].step = "commit"
    /\ LET c == task[i].conn IN
       /\ db' = ApplyTxn(db, conns[c].txn)
       /\ conns' = [conns EXCEPT ![c].txn = EmptyMap]
    /\ task' = [task EXCEPT ![i] = Finally(task[i])]
    /\ outcome' = SettleAll(task', outcome)
    /\ UNCHANGED <<bank, hist, cli>>

\* conn.commit() rejects
CommitFail(i) ==
    /\ task[i].step = "commit"
    /\ task' = [task EXCEPT ![i] = Throw([task[i] EXCEPT !.cls = "SqlError"])]
    /\ outcome' = SettleAll(task', outcome)
    /\ UNCHANGED <<db, bank, conns, hist, cli>>

\* a rollback that discards the open transaction of every connection
RollbackAll(i) ==
    /\ task[i].step = "rollback"
    /\ conns' = [c \in Conns |-> [conns[c] EXCEPT !.txn = EmptyMap]]
    /\ task' = [task EXCEPT ![i] = Finally(task[i])]
    /\ outcome' = SettleAll(task', outcome)
    /\ UNCHANGED <<db, bank, hist, cli>>

\* conn.rollback() resolves: the open transaction is discarded, e is thrown
RollbackOk(i) ==
    /\ task[i].step = "rollback"
    /\ conns' = [conns EXCEPT ![task[i].conn].txn = EmptyMap]
    /\ task' = [task EXCEPT ![i] = Finally(task[i])]
    /\ outcome' = SettleAll(task', outcome)
    /\ UNCHANGED <<db, bank, hist, cli>>

\* conn.rollback() rejects: the connection is lost and the server discards
\* the transaction it had open
RollbackFail(i) ==
    /\ task[i].step = "rollback"
    /\ conns' = [conns EXCEPT ![task[i].conn].txn = EmptyMap]
    /\ task' = [task EXCEPT ![i] = RollbackThrows(task[i])]
    /\ outcome' = SettleAll(task', outcome)
    /\ UNCHANGED <<db, bank, hist, cli>>

\* a call that settles without giving its connection back
EndKeeps(i) ==
    /\ task[i].step = "end"
    /\ task' = [task EXCEPT ![i] = Settle([task[i] EXCEPT !.conn = 0,
                                                        !.rel = @ + 1])]
    /\ outcome' = SettleAll(task', outcome)
    /\ UNCHANGED <<db, bank, conns, hist, cli>>

\* conn.end() resolves: the connection is back in the pool as it is, and
\* the call settles
End(i) ==
    /\ task[i].step = "end"
    /\ conns' = [conns EXCEPT ![task[i].conn].owner = 0]
    /\ task' = [task EXCEPT ![i] = Settle([task[i] EXCEPT !.conn = 0,
                                                        !.rel = @ + 1])]
    /\ outcome' = SettleAll(task', outcome)
    /\ UNCHANGED <<db, bank, hist, cli>>

\* the record's function after its lookup: insertRun builds the insert map,
\* asking the bank on the way, and the insert call runs up to getConnection
BuildInsert(i) ==
    /\ task[i].state = "LOOKUP_RESOLVED"
    /\ LET r == insertRun(task[i].run, task[i].keys, bank) IN
       /\ bank' = r.options.bank
       /\ task' = [task EXCEPT ![i].state = "INSERT_ISSUED",
                               ![i].step = "acquire",
                               ![i].queries = r.stmt,
                               ![i].results = EmptyMap,
                               ![i].keys = r.options.keys,
                               ![i].reqs = r.options.reqs]
    /\ UNCHANGED <<db, conns, outcome, hist, cli>>

\* a timer set by requestKey fires, 100 s after the miss
Evict ==
    /\ hist.evictions < MaxEvictions
    /\ Len(bank.timers) > 0
    /\ bank' = EvictEntry(bank)
    /\ hist' = [hist EXCEPT !.evictions = @ + 1]
    /\ UNCHANGED <<db, conns, task, outcome, cli>>

\* the records of one call, up to their order in the argument list (the
\* pipelines of the records are started alike and run independently)
RunChoices(F) ==
    {rs \in [Tasks -> F] :
        \A i \in Tasks : i + 1 \in Tasks => rs[i] <= rs[i + 1]}

Next ==
    \/ \E rs \in RunChoices(1..Len(Fixtures)) :
          insertRuns([i \in Tasks |-> Fixtures[rs[i]]])
    \/ \E i \in Tasks : AcquireOk(i)
    \/ \E i \in Tasks : AcquireFail(i)
    \/ \E i \in Tasks : StmtsOk(i)
    \/ \E i \in Tasks, k \in Tables : StmtsFail(i, k)
    \/ \E i \in Tasks, k \in Tables : ValidatorFail(i, k)
    \/ \E i \in Tasks : CommitOk(i)
    \/ \E i \in Tasks : CommitFail(i)
    \/ \E i \in Tasks : RollbackOk(i)
    \/ \E i \in Tasks : RollbackFail(i)
    \/ \E i \in Tasks : End(i)
    \/ \E i \in Tasks : BuildInsert(i)
    \/ Evict

Spec == Init /\ [][Next]_vars

\* the steps of the pipeline of record i
Step(i) ==
    \/ AcquireOk(i) \/ AcquireFail(i)
    \/ StmtsOk(i)
    \/ \E k \in Tables : StmtsFail(i, k) \/ ValidatorFail(i, k)
    \/ CommitOk(i) \/ CommitFail(i)
    \/ RollbackOk(i) \/ RollbackFail(i)
    \/ End(i)
    \/ BuildInsert(i)

\* a step of record i is possible: a call of it waits for the driver, or its
\* lookup has resolved and its function runs on
CanStep(i) == task[i].step # "none" \/ task[i].state = "LOOKUP_RESOLVED"

\* weak fairness of Step(i), WF_vars(Step(i)), written out: CanStep(i) is
\* ENABLED <<Step(i)>>_vars, and the steps of Next that change task[i]
\* while CanStep(i) holds are those of Step(i)
Fair(i) ==
    \/ []<>(~CanStep(i))
    \/ []<><<CanStep(i) /\ task'[i] # task[i]>>_vars

\* the driver answers every request, with a result or with an error, and a
\* function whose await has settled runs on
SpecFair == Spec /\ \A i \in 1..NumRuns : Fair(i)

----------------------------------------------------------------------------
(* A pool of one connection (--mariadb-conn-limit=1) and three records *)

\* the slots of Conns after the first are not in the pool: they are never
\* handed out
NotInPool == [owner |-> NumRuns + 2, txn |-> EmptyMap]

InitOne ==
    /\ db = EmptyDB
    /\ bank = SeededBank(db)
    /\ conns = [c \in Conns |-> IF c = 1 THEN IdleConn ELSE NotInPool]
    /\ task = [i \in 1..(NumRuns + 1) |-> NewTask]
    /\ outcome = "pending"
    /\ hist = [evictions |-> 0]
    /\ cli = NewCli(<<>>)

NextOne ==
    \/ insertRuns([i \in Tasks |->
                     TrioFixtures[((i - 1) % Len(TrioFixtures)) + 1]])
    \/ \E i \in Tasks : AcquireOk(i)
    \/ \E i \in Tasks : AcquireFail(i)
    \/ \E i \in Tasks : StmtsOk(i)
    \/ \E i \in Tasks, k \in Tables : StmtsFail(i, k)
    \/ \E i \in Tasks : CommitOk(i)
    \/ \E i \in Tasks : CommitFail(i)
    \/ \E i \in Tasks : RollbackOk(i)
    \/ \E i \in Tasks : RollbackFail(i)
    \/ \E i \in Tasks : End(i)
    \/ \E i \in Tasks : BuildInsert(i)

\* record i can go on without anything from the other records: its function
\* runs on, or its call waits for the driver, or it waits for a connection
\* and the pool has one
Ready(i) ==
    \/ task[i].state = "LOOKUP_RESOLVED"
    \/ task[i].step \in {"stmts", "commit", "rollback", "end"}
    \/ task[i].step = "acquire" /\ \E c \in Conns : conns[c].owner = 0

\* every statement, commit, rollback and release terminates, and the pool
\* hands an idle connection to a call that keeps waiting for one
FairOne(i) ==
    \/ []<>(~Ready(i))
    \/ []<><<Ready(i) /\ task'[i] # task[i]>>_vars

SpecOne == InitOne /\ [][NextOne]_vars /\ \A i \in 1..(NumRuns + 1) : FairOne(i)

----------------------------------------------------------------------------
(* The bank driven alone: calls of requestKey and timers that fire *)

\* the tables and content keys asked for: "Plugin" with a content that
\* starts with "Name" and "PluginName" with the rest spell the same text
BankTables == {"Plugin", "PluginName"}
BankContents == {<<"x">>, <<"y">>, <<"N", "a", "m", "e", "x">>}

\* one call of requestKey(key, value); hist keeps the call and its result,
\* and for every miss the timer it set, in the order the timers were set
Request(key, value) ==
    /\ hist.calls < MaxRequests
    /\ LET r == requestKey(bank, key, value) IN
       /\ bank' = r.bank
       /\ hist' = [hist EXCEPT
                     !.calls = @ + 1,
                     !.last = [table |-> key, content |-> value,
                               value |-> r.value, hit |-> r.hit],
                     !.sched = IF r.hit THEN @
                               ELSE Append(@, [table |-> key,
                                               content |-> value,
                                               id |-> r.value,
                                               call |-> hist.calls + 1])]
    /\ UNCHANGED <<db, conns, task, outcome, cli>>

\* the counters after DB.new(): the largest ids found in the tables
InitBank ==
    /\ db = EmptyDB
    /\ \E n \in {0, 2} :
          bank = [keys |-> [t \in DimTables |-> n], cache |-> EmptyMap,
                  timers |-> <<>>]
    /\ conns = [c \in Conns |-> IdleConn]
    /\ task = [i \in 1..NumRuns |-> NewTask]
    /\ outcome = "pending"
    /\ hist = [evictions |-> 0, calls |-> 0, sched |-> <<>>,
               last |-> [table |-> "none", content |-> <<>>, value |-> 0,
                         hit |-> FALSE]]
    /\ cli = NewCli(<<>>)

\* the oldest pending timer of the bank fires
Expire ==
    /\ hist.evictions < MaxExpiries
    /\ Len(bank.timers) > 0
    /\ bank' = EvictEntry(bank)
    /\ hist' = [hist EXCEPT !.evictions = @ + 1]
    /\ UNCHANGED <<db, conns, task, outcome, cli>>

NextBank ==
    \/ \E key \in BankTables, value \in BankContents : Request(key, value)
    \/ Expire

SpecBank == InitBank /\ [][NextBank]_vars

----------------------------------------------------------------------------
(* new Cli(cliInput): one action per turn of the loop over cliInput *)

InLoop == cli.exit = <<>> /\ cli.pos <= Len(cli.input)

\* the constructor has returned
Constructed == cli.exit = <<>> /\ cli.pos > Len(cli.input)

\* if (singleArgs.includes(key)) continue;
CliSingle ==
    /\ InLoop
    /\ KeyOf(cli.input[cli.pos]) \in Range(singleArgs)
    /\ cli' = [cli EXCEPT !.pos = @ + 1]
    /\ UNCHANGED <<db, bank, conns, task, outcome, hist>>

\* an unknown key that is passed over like a flag
CliUnknownSkips ==
    /\ InLoop
    /\ KeyOf(cli.input[cli.pos]) \notin Range(singleArgs) \cup Range(multiArgs)
    /\ cli' = [cli EXCEPT !.pos = @ + 1]
    /\ UNCHANGED <<db, bank, conns, task, outcome, hist>>

\* if (!multiArgs.includes(key)) { console.error(...); process.exit(-1); }
CliUnknown ==
    /\ InLoop
    /\ KeyOf(cli.input[cli.pos]) \notin Range(singleArgs) \cup Range(multiArgs)
    /\ cli' = [cli EXCEPT !.exit = <<-1>>]
    /\ UNCHANGED <<db, bank, conns, task, outcome, hist>>

\* if (value === undefined) { console.error(...); process.exit(1); }
CliNoValue ==
    /\ InLoop
    /\ KeyOf(cli.input[cli.pos]) \in Range(multiArgs)
    /\ ValueOf(cli.input[cli.pos]) = Undefined
    /\ cli' = [cli EXCEPT !.exit = <<1>>]
    /\ UNCHANGED <<db, bank, conns, task, outcome, hist>>

\* this.args[key] = value;
CliStore ==
    /\ InLoop
    /\ KeyOf(cli.input[cli.pos]) \in Range(multiArgs)
    /\ ValueOf(cli.input[cli.pos]) # Undefined
    /\ cli' = [cli EXCEPT !.args[KeyOf(cli.input[cli.pos])] =
                              ValueOf(cli.input[cli.pos]),
                          !.pos = @ + 1]
    /\ UNCHANGED <<db, bank, conns, task, outcome, hist>>

\* the characters that follow the head of an argument
TailAlphabet == {"=", "a", "b"}
Tails == UNION {[1..n -> TailAlphabet] : n \in 0..MaxTail}

\* heads: two keys that take a value, a flag, and a misspelt key
Heads == {multiArgs[1], multiArgs[4], singleArgs[1],
          <<"-", "-", "h", "o", "s">>}

ArgChoices == {h \o t : h \in Heads, t \in Tails}

ArgLists == UNION {[1..n -> ArgChoices] : n \in 0..MaxArgs}

InitCli ==
    /\ db = EmptyDB
    /\ bank = SeededBank(db)
    /\ conns = [c \in Conns |-> IdleConn]
    /\ task = [i \in 1..NumRuns |-> NewTask]
    /\ outcome = "pending"
    /\ hist = [evictions |-> 0]
    /\ cli \in {NewCli(input) : input \in ArgLists}

NextCli ==
    \/ CliSingle
    \/ CliUnknown
    \/ CliNoValue
    \/ CliStore

SpecCli == InitCli /\ [][NextCli]_vars

----------------------------------------------------------------------------
(* the handler of POST /log: await log(db, body), then one reply *)

\* a handler that answers 500 to every error
ReplyAll500 ==
    /\ outcome # "pending"
    /\ hist.replies = 0
    /\ hist' = [hist EXCEPT !.replies = @ + 1,
                            !.reply = IF outcome = "resolved" THEN 200
                                      ELSE 500]
    /\ UNCHANGED <<db, bank, conns, task, outcome, cli>>

\* the promise of log settles and the handler continues: 200 when it
\* resolved; in the catch block 500 when e is a SqlError and 400 otherwise,
\* e being the error of the record that rejected Promise.all
Reply ==
    /\ outcome # "pending"
    /\ hist.replies = 0
    /\ LET e == (CHOOSE i \in Tasks : task[i].state = "ROLLED_BACK") IN
       hist' = [hist EXCEPT !.replies = @ + 1,
                            !.reply = IF outcome = "resolved" THEN 200
                                      ELSE IF task[e].cls = "SqlError"
                                      THEN 500 ELSE 400]
    /\ UNCHANGED <<db, bank, conns, task, outcome, cli>>

\* zrun.parse throws in log before insertRuns is called: the catch block
\* answers 400 and the handler is done
logInvalid ==
    /\ \A i \in Tasks : task[i].state = "NEW"
    /\ hist.replies = 0
    /\ hist' = [hist EXCEPT !.replies = @ + 1, !.reply = 400]
    /\ UNCHANGED <<db, bank, conns, task, outcome, cli>>

\* log(db, body) with valid records: insertRuns(...parsedruns)
log(runs) ==
    /\ hist.replies = 0
    /\ insertRuns(runs)

InitLog ==
    /\ db = EmptyDB
    /\ bank = SeededBank(db)
    /\ conns = [c \in Conns |-> IdleConn]
    /\ task = [i \in 1..NumRuns |-> NewTask]
    /\ outcome = "pending"
    /\ hist = [evictions |-> 0, replies |-> 0, reply |-> 0]
    /\ cli = NewCli(<<>>)

\* the continuation of the handler runs as soon as the promise has settled,
\* before the next event of the driver or of a timer
ReplyDue == outcome # "pending" /\ hist.replies = 0

NextLog ==
    \/ Reply
    \/ ~ReplyDue /\ logInvalid
    \/ ~ReplyDue /\ \E rs \in RunChoices(1..Len(Fixtures)) :
                        log([i \in Tasks |-> Fixtures[rs[i]]])
    \/ ~ReplyDue /\ \E i \in Tasks : AcquireOk(i)
    \/ ~ReplyDue /\ \E i \in Tasks : AcquireFail(i)
    \/ ~ReplyDue /\ \E i \in Tasks : StmtsOk(i)
    \/ ~ReplyDue /\ \E i \in Tasks : \E k \in Tables : StmtsFail(i, k)
    \/ ~ReplyDue /\ \E i \in Tasks : \E k \in Tables : ValidatorFail(i, k)
    \/ ~ReplyDue /\ \E i \in Tasks : CommitOk(i)
    \/ ~ReplyDue /\ \E i \in Tasks : CommitFail(i)
    \/ ~ReplyDue /\ \E i \in Tasks : RollbackOk(i)
    \/ ~ReplyDue /\ \E i \in Tasks : RollbackFail(i)
    \/ ~ReplyDue /\ \E i \in Tasks : End(i)
    \/ ~ReplyDue /\ \E i \in Tasks : BuildInsert(i)
    \/ ~ReplyDue /\ Evict

SpecLog == InitLog /\ [][NextLog]_vars

----------------------------------------------------------------------------
(* log(db, run) with a body of one record or of an array *)

IntKeys == {"score", "statusCode"}
TextKeys == {"pluginVersion", "pluginName", "extensionVersion",
             "browserVersion", "browserName", "path", "url"}
OptionalTextKeys == {"errorMessage"}

\* zrun.safeParse: the shape of a record
zrun(r) ==
    [success |->
        /\ IntKeys \cup TextKeys \subseteq DOMAIN r
        /\ \A k \in DOMAIN r \cap IntKeys : r[k][1] = "number"
        /\ \A k \in DOMAIN r \cap (TextKeys \cup OptionalTextKeys) :
              r[k][1] = "string",
     data |-> [k \in DOMAIN r \cap
                     (IntKeys \cup TextKeys \cup OptionalTextKeys) |-> r[k]]]

\* records that are not of the shape: no score, and a text for the score
RunNoScore == Without(RunA, "score")
RunTextScore == [RunB EXCEPT !.score = Str(<<"1">>)]

BodyItems == {RunA, RunB, RunNoScore, RunTextScore}

\* a body: one record, or an array of up to NumRuns records
Bodies ==
    {[array |-> FALSE, items |-> <<r>>] : r \in BodyItems}
    \cup {[array |-> TRUE, items |-> q] :
             q \in UNION {[1..n -> BodyItems] : n \in 0..NumRuns}}

\* the tasks of insertRuns(...runs), each up to its first await
Started(runs) ==
    [i \in 1..Len(runs) |->
        [NewTask EXCEPT !.run = runs[i],
                        !.state = "LOOKUP_ISSUED",
                        !.step = "acquire",
                        !.queries = getKeys(runs[i])]]

\* a log that inserts the records that parse and skips the others
logBodySkips(body) ==
    /\ ~hist.logged
    /\ LET run == body.items
           good == SelectSeq(run, LAMBDA r : zrun(r).success)
       IN  /\ task' = Started([n \in 1..Len(good) |-> zrun(good[n]).data])
           /\ outcome' = SettleAll(task', "pending")
           /\ hist' = [hist EXCEPT !.logged = TRUE, !.body = body,
                                   !.called = TRUE]
    /\ UNCHANGED <<db, bank, conns, cli>>

\* log(db, run): a body that is not an array becomes [run]; run.map parses
\* every record and throws at the first that fails; then insertRuns is
\* called with the parsed records
logBody(body) ==
    /\ ~hist.logged
    /\ LET run == body.items IN
       IF \A n \in 1..Len(run) : zrun(run[n]).success
       THEN /\ task' = Started([n \in 1..Len(run) |-> zrun(run[n]).data])
            /\ outcome' = SettleAll(task', "pending")
            /\ hist' = [hist EXCEPT !.logged = TRUE, !.body = body,
                                    !.called = TRUE]
       ELSE /\ task' = task
            /\ outcome' = "rejected"
            /\ hist' = [hist EXCEPT !.logged = TRUE, !.body = body]
    /\ UNCHANGED <<db, bank, conns, cli>>

InitBody ==
    /\ db = EmptyDB
    /\ bank = SeededBank(db)
    /\ conns = [c \in Conns |-> IdleConn]
    /\ task = <<>>
    /\ outcome = "pending"
    /\ hist = [evictions |-> 0, logged |-> FALSE, called |-> FALSE,
               body |-> [array |-> TRUE, items |-> <<>>]]
    /\ cli = NewCli(<<>>)

NextBody ==
    \/ \E body \in Bodies : logBody(body)
    \/ \E i \in Tasks : AcquireOk(i)
    \/ \E i \in Tasks : StmtsOk(i)
    \/ \E i \in Tasks, k \in Tables : StmtsFail(i, k)
    \/ \E i \in Tasks : CommitOk(i)
    \/ \E i \in Tasks : RollbackOk(i)
    \/ \E i \in Tasks : End(i)
    \/ \E i \in Tasks : BuildInsert(i)

SpecBody == InitBody /\ [][NextBody]_vars

----------------------------------------------------------------------------
(* DB.new() in a new process, and calls of insertRuns one after the other *)

\* the largest id stored in a dimension table, 0 for an empty one
MaxId(d, t) ==
    LET ids == {r["id"][2] : r \in BagToSet(d[t])} IN
    IF ids = {} THEN 0 ELSE SetMax(ids)

\* what the driver may hand over for the integer of a result column: a
\* number, a numeric string or a BigInt; one decoding per driver setup
Reps == {"number", "string", "bigint"}

Repr(rep, n) ==
    IF rep = "number" THEN Num(n)
    ELSE IF rep = "string" THEN Str(NumToStr(n))
    ELSE <<"bigint", n>>

\* SELECT COALESCE(MAX(id), 0) AS id FROM t
ExecInitKeys(d, t, rep) == << [id |-> Repr(rep, MaxId(d, t))] >>

\* the validator of initKeys: safeParse, and [{id: 0}] when it fails
initKeysValidator(r) ==
    LET res == zIdResponse(r) IN
    IF res.success THEN res.data ELSE << [id |-> Num(0)] >>

\* DB.initKeys: every counter is set to the mapped result of its table
initKeys(d, rep) ==
    [keys   |-> [t \in DimTables |->
                   initKeysValidator(ExecInitKeys(d, t, rep))[1].id[2]],
     cache  |-> EmptyMap,
     timers |-> <<>>]

\* the process is started again while no call is running: a new pool, a new
\* bank seeded by initKeys; the records of the old process are history
New(rep) ==
    /\ \A i \in Tasks : Terminal(i)
    /\ hist.restarts < MaxRestarts
    /\ bank' = initKeys(db, rep)
    /\ conns' = [c \in Conns |-> IdleConn]
    /\ hist' = [hist EXCEPT !.restarts = @ + 1]
    /\ UNCHANGED <<db, task, outcome, cli>>

\* insertRuns(run) with one record, called when the calls before it have
\* returned; hist.before is the database the call finds
insertRunsNext(run) ==
    /\ \A i \in Tasks : Terminal(i)
    /\ Len(task) < MaxSeq
    /\ task' = Append(task, [NewTask EXCEPT !.run = run,
                                            !.state = "LOOKUP_ISSUED",
                                            !.step = "acquire",
                                            !.queries = getKeys(run)])
    /\ outcome' = "pending"
    /\ hist' = [hist EXCEPT !.before = db]
    /\ UNCHANGED <<db, bank, conns, cli>>

InitSeq ==
    /\ db = EmptyDB
    /\ bank = SeededBank(db)
    /\ conns = [c \in Conns |-> IdleConn]
    /\ task = <<>>
    /\ outcome = "pending"
    /\ hist = [evictions |-> 0, restarts |-> 0, before |-> db]
    /\ cli = NewCli(<<>>)

\* calls in sequence with a driver that reports no error; timers fire and
\* the process restarts between them
NextSeq ==
    \/ \E r \in 1..Len(SeqFixtures) : insertRunsNext(SeqFixtures[r])
    \/ \E i \in Tasks : AcquireOk(i)
    \/ \E i \in Tasks : StmtsOk(i)
    \/ \E i \in Tasks : CommitOk(i)
    \/ \E i \in Tasks : End(i)
    \/ \E i \in Tasks : BuildInsert(i)
    \/ Evict
    \/ \E rep \in Reps : New(rep)

SpecSeq == InitSeq /\ [][NextSeq]_vars

\* the same, with records that share their nested dimensions
NextNest ==
    \/ \E r \in 1..Len(NestFixtures) : insertRunsNext(NestFixtures[r])
    \/ \E i \in Tasks : AcquireOk(i)
    \/ \E i \in Tasks : StmtsOk(i)
    \/ \E i \in Tasks : CommitOk(i)
    \/ \E i \in Tasks : End(i)
    \/ \E i \in Tasks : BuildInsert(i)
    \/ Evict
    \/ \E rep \in Reps : New(rep)

SpecNest == InitSeq /\ [][NextNest]_vars

----------------------------------------------------------------------------
(* DB.init() and DB.dropTables(): DDL through DB.query *)

\* a table of another application in the same database
Foreign == "Other"

\* CREATE TABLE fails for a table that exists or a column named twice,
\* DROP TABLE for a table that does not exist
ExecDDL(d, q) ==
    IF q.op = "CREATE"
    THEN /\ q.table \notin DOMAIN d
         /\ \A n, m \in 1..Len(q.cols) : q.cols[n] = q.cols[m] => n = m
    ELSE q.table \in DOMAIN d

\* the tables after every statement of the map has run: DDL takes effect
\* at once and ends the open transaction, a failed statement stops no other
RunDDL(d, queries) ==
    LET done == {queries[k].table : k \in
                    {x \in DOMAIN queries : ExecDDL(d, queries[x])}}
        created == {t \in done : t \notin DOMAIN d}
    IN  [t \in (DOMAIN d \ done) \cup created |->
            IF t \in created THEN EmptyBag ELSE d[t]]

\* a call of DB.init() or DB.dropTables() made when the call before it has
\* settled; the settled call goes to the log with its outcome
DdlCall(kind, queries) ==
    /\ \A i \in Tasks : Terminal(i)
    /\ Len(hist.log) + Len(task) < MaxCalls
    /\ task' = << [NewTask EXCEPT !.state = "DDL_ISSUED",
                                  !.step = "acquire",
                                  !.queries = queries] >>
    /\ outcome' = "pending"
    /\ hist' = [hist EXCEPT !.log =
                   IF task = <<>> THEN @
                   ELSE Append(@, [ddl |-> hist.ddl, outcome |-> outcome]),
                            !.ddl = kind]
    /\ UNCHANGED <<db, bank, conns, cli>>

\* DB.init(): query(compileTables(...))
DBinit == DdlCall("init", compileTables)

\* DB.dropTables(): query(dropTables(...))
DBdropTables == DdlCall("dropTables", dropTables)

\* Promise.all resolves: the server ran every statement
DdlOk(i) ==
    /\ task[i].state = "DDL_ISSUED"
    /\ task[i].step = "stmts"
    /\ \A k \in DOMAIN task[i].queries : ExecDDL(db, task[i].queries[k])
    /\ db' = RunDDL(db, task[i].queries)
    /\ task' = [task EXCEPT ![i].step = "commit"]
    /\ UNCHANGED <<bank, conns, outcome, hist, cli>>

\* Promise.all rejects: the server refused a statement and ran the others
DdlFail(i) ==
    /\ task[i].state = "DDL_ISSUED"
    /\ task[i].step = "stmts"
    /\ \E k \in DOMAIN task[i].queries : ~ExecDDL(db, task[i].queries[k])
    /\ db' = RunDDL(db, task[i].queries)
    /\ task' = [task EXCEPT ![i] = Throw([task[i] EXCEPT !.cls = "SqlError"])]
    /\ outcome' = SettleAll(task', outcome)
    /\ UNCHANGED <<bank, conns, hist, cli>>

\* the database holds none of the schema's tables or all of them, empty
InitDDL ==
    /\ db \in {[t \in {Foreign} |-> EmptyBag],
               [t \in Tables \cup {Foreign} |-> EmptyBag]}
    /\ bank = SeededBank(EmptyDB)
    /\ conns = [c \in Conns |-> IdleConn]
    /\ task = <<>>
    /\ outcome = "pending"
    /\ hist = [evictions |-> 0, log |-> <<>>, ddl |-> "none",
               tables0 |-> DOMAIN db]
    /\ cli = NewCli(<<>>)

NextDDL ==
    \/ DBinit
    \/ DBdropTables
    \/ \E i \in Tasks : AcquireOk(i)
    \/ \E i \in Tasks : AcquireFail(i)
    \/ \E i \in Tasks : DdlOk(i)
    \/ \E i \in Tasks : DdlFail(i)
    \/ \E i \in Tasks : CommitOk(i)
    \/ \E i \in Tasks : CommitFail(i)
    \/ \E i \in Tasks : RollbackOk(i)
    \/ \E i \in Tasks : RollbackFail(i)
    \/ \E i \in Tasks : End(i)

SpecDDL == InitDDL /\ [][NextDDL]_vars

\* the characters of the text values tried: a letter and the single quote
TextAlphabet == {"a", "'"}

Texts == UNION {[1..n -> TextAlphabet] : n \in 1..MaxText}

\* One record whose errorMessage is any text of Texts, through the whole
\* pipeline: the text is inlined into the lookup SELECT and into the INSERT
InitText ==
    /\ db = EmptyDB
    /\ bank = SeededBank(db)
    /\ conns = [c \in Conns |-> IdleConn]
    /\ task = [i \in {1} |-> NewTask]
    /\ outcome = "pending"
    /\ hist = [evictions |-> 0]
    /\ cli = NewCli(<<>>)

NextText ==
    \/ \E x \in Texts :
          insertRuns([i \in Tasks |-> [RunA EXCEPT !.errorMessage = Str(x)]])
    \/ \E i \in Tasks : AcquireOk(i)
    \/ \E i \in Tasks : AcquireFail(i)
    \/ \E i \in Tasks : StmtsOk(i)
    \/ \E i \in Tasks, k \in Tables : StmtsFail(i, k)
    \/ \E i \in Tasks, k \in Tables : ValidatorFail(i, k)
    \/ \E i \in Tasks : CommitOk(i)
    \/ \E i \in Tasks : CommitFail(i)
    \/ \E i \in Tasks : RollbackOk(i)
    \/ \E i \in Tasks : RollbackFail(i)
    \/ \E i \in Tasks : End(i)
    \/ \E i \in Tasks : BuildInsert(i)

SpecText == InitText /\ [][NextText]_vars

\* A burst of one record more, with a driver that reports no error and no
\* timer firing: the setting of the claims about successful inserts within
\* the cache's lifetime
InitBurst ==
    /\ db = EmptyDB
    /\ bank = SeededBank(db)
    /\ conns = [c \in Conns |-> IdleConn]
    /\ task = [i \in 1..(NumRuns + 1) |-> NewTask]
    /\ outcome = "pending"
    /\ hist = [evictions |-> 0]
    /\ cli = NewCli(<<>>)

\* positions of RunA and RunH in Fixtures
BurstFixtures == {i \in 1..Len(Fixtures) : Fixtures[i] \in {RunA, RunH}}

NextBurst ==
    \/ \E rs \in RunChoices(BurstFixtures) :
          insertRuns([i \in Tasks |-> Fixtures[rs[i]]])
    \/ \E i \in Tasks : AcquireOk(i)
    \/ \E i \in Tasks : StmtsOk(i)
    \/ \E i \in Tasks : CommitOk(i)
    \/ \E i \in Tasks : End(i)
    \/ \E i \in Tasks : BuildInsert(i)

SpecBurst == InitBurst /\ [][NextBurst]_vars

\* one call with records that share their nested dimensions, and a driver
\* that reports no error
NextPair ==
    \/ \E rs \in RunChoices(1..Len(NestFixtures)) :
          insertRuns([i \in Tasks |-> NestFixtures[rs[i]]])
    \/ \E i \in Tasks : AcquireOk(i)
    \/ \E i \in Tasks : StmtsOk(i)
    \/ \E i \in Tasks : CommitOk(i)
    \/ \E i \in Tasks : End(i)
    \/ \E i \in Tasks : BuildInsert(i)
    \/ Evict

SpecPair == Init /\ [][NextPair]_vars

\* one call with the records of TrioFixtures, in that order, and a driver
\* that reports no error
NextTrio ==
    \/ insertRuns([i \in Tasks |->
                     TrioFixtures[((i - 1) % Len(TrioFixtures)) + 1]])
    \/ \E i \in Tasks : AcquireOk(i)
    \/ \E i \in Tasks : StmtsOk(i)
    \/ \E i \in Tasks : CommitOk(i)
    \/ \E i \in Tasks : End(i)
    \/ \E i \in Tasks : BuildInsert(i)

SpecTrio == InitBurst /\ [][NextTrio]_vars

----------------------------------------------------------------------------
(* Vocabulary of the claims *)

\* the tuple of leaf values of a schema, nested dimensions included
RECURSIVE LeafValues(_, _)
LeafValues(s, run) ==
    IF Len(s) = 0 THEN <<>>
    ELSE (IF s[1].dbtype = "ForeignKey" THEN LeafValues(s[1].child, run)
          ELSE <<Get(run, s[1].runkey)>>)
         \o LeafValues(Tail(s), run)

\* the content of a record in the subtree of a dimension table
Content(t, run) == LeafValues(TableNode[t].child, run)

\* the foreign-key fields of a table
FKFields(t) ==
    LET s == TableNode[t].child IN
    {s[i] : i \in {j \in 1..Len(s) : s[j].dbtype = "ForeignKey"}}

\* the dimension is walked for this record: neither it nor a dimension above
\* it is an optional one whose field the record lacks
RECURSIVE Walked(_, _, _)
Walked(s, t, run) ==
    \E i \in 1..Len(s) :
        /\ s[i].dbtype = "ForeignKey"
        /\ "optional" \in DOMAIN s[i] => s[i].optional \in DOMAIN run
        /\ s[i].table = t \/ Walked(s[i].child, t, run)

\* the record's insert map has been built
Built(i) ==
    \/ task[i].state \in {"INSERT_ISSUED", "COMMITTED"}
    \/ task[i].state = "ROLLED_BACK" /\ "Fact" \in DOMAIN task[i].queries

\* the COMMIT of the record's insert call has succeeded
InsertCommitted(i) ==
    \/ task[i].state = "COMMITTED"
    \/ task[i].state = "INSERT_ISSUED" /\ task[i].step = "end"
       /\ task[i].err = "none"

\* the row the statement of table t in the record's insert map writes
RowOf(i, t) == ExecInsert(task[i].queries[t]).row

\* the committed rows of dimension t that hold the record's content: the
\* rows the record's lookup SELECT for t matches
RowsFor(t, run) ==
    LET node == TableNode[t]
        q == getKeysQuery(node.child, t, node.child_key, run)
    IN  RowsMatching(db, q, t)

WithinTTL == hist.evictions = 0

NoWriteInFlight ==
    \A i \in Tasks : task[i].state \notin {"LOOKUP_RESOLVED", "INSERT_ISSUED"}

----------------------------------------------------------------------------
(* C1 *)

RefIntegrity ==
    \A t \in Tables : \A f \in FKFields(t) : \A r \in BagToSet(db[t]) :
        r[f.name] # NullCell =>
            \E c \in BagToSet(db[f.table]) : c[f.child_key] = r[f.name]

\* C1: once no write is in flight, every non-NULL dimension id in a foreign
\* key column of a committed row is the child key of a committed row of the
\* referenced table, also when transactions failed and were rolled back.
C1_RefIntegrity == NoWriteInFlight => RefIntegrity

----------------------------------------------------------------------------
(* C3 *)

\* C3: the Fact table holds exactly one row per record whose insert call
\* committed, whatever the lookups found and however many dimension INSERTs
\* were suppressed; so N successful insertRuns(r) leave N Fact rows.
C3_FactMultiplicity ==
    BagCardinality(db["Fact"]) =
        Cardinality({i \in Tasks : InsertCommitted(i)})

\* two records with the same content are committed, the insert map of one of
\* them holds nothing but the Fact statement, and Fact holds two rows
C3_Witness ==
    /\ \A i \in Tasks : task[i].state = "COMMITTED"
    /\ \E i, j \in Tasks :
          /\ i # j /\ task[i].run = task[j].run
          /\ DOMAIN task[j].queries = {"Fact"}
    /\ BagCardinality(db["Fact"]) = NumRuns

----------------------------------------------------------------------------
(* C4 *)

LacksErrorMessage(i) ==
    task[i].state # "NEW" /\ "errorMessage" \notin DOMAIN task[i].run

\* C4: a record without errorMessage has no ErrorMessage statement in its
\* insert map and asks the bank for no ErrorMessage id, its Fact statement
\* carries NULL in error_message, and so does the Fact row it commits.
C4_OptionalDimension ==
    \A i \in Tasks :
        LacksErrorMessage(i) /\ Built(i) =>
            /\ "ErrorMessage" \notin DOMAIN task[i].queries
            /\ \A n \in 1..Len(task[i].reqs) :
                  task[i].reqs[n].table # "ErrorMessage"
            /\ RowOf(i, "Fact")["error_message"] = NullCell
            /\ InsertCommitted(i) => BagIn(RowOf(i, "Fact"), db["Fact"])

\* a record without errorMessage is committed next to one that has it: the
\* ErrorMessage table holds the other record's row only
C4_Witness ==
    \E i, j \in Tasks :
        /\ LacksErrorMessage(i) /\ task[i].state = "COMMITTED"
        /\ ~LacksErrorMessage(j) /\ task[j].state = "COMMITTED"
        /\ BagCardinality(db["ErrorMessage"]) = 1

----------------------------------------------------------------------------
(* C2 *)

\* the number of committed rows of dimension t that hold the record's content
RowCount(t, run) ==
    BagCardinality([r \in RowsFor(t, run) |-> CopiesIn(r, db[t])])

\* C2: when every record of a call into an empty database has been committed
\* with no transaction failing and no cache entry expired, a dimension table
\* holds exactly one row for content that two of the records share.
C2_OneRowPerContent ==
    (WithinTTL /\ \A i \in Tasks : task[i].state = "COMMITTED") =>
        \A i, j \in Tasks : \A t \in DimTables :
            /\ i # j
            /\ Walked(schema, t, task[i].run)
            /\ Walked(schema, t, task[j].run)
            /\ Content(t, task[i].run) = Content(t, task[j].run)
            => RowCount(t, task[i].run) = 1

----------------------------------------------------------------------------
(* C5 *)

\* the misses on table t in the requests a record made
Misses(reqs, t) ==
    Cardinality({n \in 1..Len(reqs) : reqs[n].table = t /\ ~reqs[n].hit})

\* C5: in every step the counter of every dimension table keeps or raises its
\* value, and a step in which a record asks the bank raises it by exactly the
\* number of misses on that table, so by at least one on every miss; steps
\* with hits only and steps that evict a cache entry leave it alone.
C5_Monotonic ==
    [][\A t \in DimTables :
          /\ bank'.keys[t] >= bank.keys[t]
          /\ \A i \in Tasks :
                task[i].state = "LOOKUP_RESOLVED"
                /\ task'[i].state = "INSERT_ISSUED"
                => bank'.keys[t] = bank.keys[t] + Misses(task'[i].reqs, t)
          /\ (\A i \in Tasks : task'[i].state = "LOOKUP_RESOLVED"
                                  => task[i].state = "LOOKUP_RESOLVED")
             /\ (\A i \in Tasks : task[i].state = "LOOKUP_RESOLVED"
                                  => task'[i].state = "LOOKUP_RESOLVED")
             => bank'.keys[t] = bank.keys[t]]_vars

\* after an eviction a record got hits and a miss, and the miss took the
\* counter of its table to 2
C5_Witness ==
    /\ hist.evictions = 1
    /\ \E i \in Tasks : \E n, m \in 1..Len(task[i].reqs) :
          /\ task[i].reqs[n].hit
          /\ ~task[i].reqs[m].hit
          /\ task[i].reqs[m].value = 2
          /\ bank.keys[task[i].reqs[m].table] = 2

----------------------------------------------------------------------------
(* C6 *)

\* C6: while no cache entry has expired, two requests for the same dimension
\* table that were handed the same id carry subtrees with the same tuple of
\* leaf values.
C6_NoReuse ==
    WithinTTL =>
        \A i, j \in Tasks :
            \A n \in 1..Len(task[i].reqs) : \A m \in 1..Len(task[j].reqs) :
                /\ task[i].reqs[n].table = task[j].reqs[m].table
                /\ task[i].reqs[n].value = task[j].reqs[m].value
                => Content(task[i].reqs[n].table, task[i].run)
                     = Content(task[j].reqs[m].table, task[j].run)

----------------------------------------------------------------------------
(* C7 *)

\* C7: while no cache entry has expired, two records with the same content in
\* the subtree of a dimension that both resolve it (a record does not resolve
\* a dimension below one the cache already knows) resolve it to the same id,
\* and every statement both of them emit for a table that references the
\* dimension, the Fact statement first of all, carries that id, from lookup
\* or bank, in the foreign-key column.
C7_SameContentSameId ==
    WithinTTL =>
        \A i, j \in Tasks : \A t \in DimTables :
            /\ Built(i) /\ Built(j)
            /\ Walked(schema, t, task[i].run)
            /\ Walked(schema, t, task[j].run)
            /\ Content(t, task[i].run) = Content(t, task[j].run)
            => /\ t \in DOMAIN task[i].keys /\ t \in DOMAIN task[j].keys
                  => task[i].keys[t] = task[j].keys[t]
               /\ \A p \in Tables : \A f \in FKFields(p) :
                     /\ f.table = t
                     /\ p \in DOMAIN task[i].queries
                     /\ p \in DOMAIN task[j].queries
                     => /\ RowOf(i, p)[f.name] = <<"int", task[i].keys[t]>>
                        /\ RowOf(j, p)[f.name] = RowOf(i, p)[f.name]

\* two committed records with the same content: one got every id from the
\* bank, the other every id from its lookup, and both Fact rows are one row
C7_Witness ==
    \E i, j \in Tasks :
        /\ task[i].run = task[j].run
        /\ task[i].state = "COMMITTED" /\ task[j].state = "COMMITTED"
        /\ Len(task[i].reqs) > 0
        /\ \A n \in 1..Len(task[i].reqs) : ~task[i].reqs[n].hit
        /\ Len(task[j].reqs) = 0
        /\ CopiesIn(RowOf(i, "Fact"), db["Fact"]) = 2

----------------------------------------------------------------------------
(* C8 *)

\* the rows of table t written by the insert calls of records 1..n whose
\* COMMIT succeeded
RECURSIVE CommittedRows(_, _)
CommittedRows(t, n) ==
    IF n = 0 THEN EmptyBag
    ELSE CommittedRows(t, n - 1)
         (+) (IF InsertCommitted(n) /\ t \in DOMAIN task[n].queries
              THEN SetToBag({RowOf(n, t)}) ELSE EmptyBag)

\* C8: a call in which a statement, the validator or COMMIT failed goes on
\* to ROLLBACK, and at every moment the tables hold the rows of the calls
\* whose COMMIT succeeded and nothing else: no row written by a statement
\* of a failed call is visible, before or after the error returns.
C8_Atomicity ==
    /\ \A t \in Tables : db[t] = CommittedRows(t, Cardinality(Tasks))
    /\ \A i \in Tasks :
          /\ task[i].err = "e" /\ task[i].conn # 0
             => task[i].step \in {"rollback", "end"}
          /\ task[i].step = "end" => conns[task[i].conn].txn = EmptyMap

\* the insert call of a record has returned its error after a rollback that
\* discarded rows its statements had written, and its Fact row is not there
C8_Witness ==
    \E i \in Tasks :
        /\ task[i].state = "ROLLED_BACK"
        /\ "Fact" \in DOMAIN task[i].queries
        /\ task[i].err = "e"
        /\ task[i].rel = 2
        /\ ~BagIn(RowOf(i, "Fact"), db["Fact"])
        /\ \E j \in Tasks : task[j].state = "COMMITTED"

----------------------------------------------------------------------------
(* C9 *)

Held == {c \in Conns : conns[c].owner # 0}

\* C9: a call holds a connection exactly from its acquisition to conn.end():
\* each record has released as often as it has acquired, but for the one
\* connection it holds; a call that has returned, on whatever path, holds
\* none, one whose acquisition failed never had one; and when every record
\* is done no connection is held.
C9_NoLeak ==
    /\ \A i \in Tasks :
          /\ task[i].conn # 0 <=> task[i].acq = task[i].rel + 1
          /\ task[i].conn = 0 <=> task[i].acq = task[i].rel
          /\ task[i].conn # 0 => conns[task[i].conn].owner = i
          /\ task[i].step \in {"none", "acquire"} => task[i].conn = 0
          /\ task[i].step \in {"stmts", "commit", "rollback", "end"}
             => task[i].conn # 0
    /\ \A c \in Held : task[conns[c].owner].conn = c
    /\ (\A i \in Tasks : Terminal(i)) => Held = {}

\* every record is done and no connection is held, after one call lost its
\* connection's rollback and another failed to acquire a connection
C9_Witness ==
    /\ \A i \in Tasks : Terminal(i)
    /\ Held = {}
    /\ \E i, j \in Tasks :
          /\ task[i].err = "rollback" /\ task[i].rel = task[i].acq
          /\ task[i].rel >= 1
          /\ task[j].err = "e" /\ task[j].acq = 0

----------------------------------------------------------------------------
(* C10 *)

\* C10: a record to which the driver reported a failure of getConnection, of
\* a statement or of COMMIT, in its lookup or in its insert call, never
\* continues past that call: the call rejects, the record's function throws,
\* and insertRuns rejects.
C10_NotSwallowed ==
    \A i \in Tasks :
        task[i].fault =>
            /\ task[i].state \in {"LOOKUP_ISSUED", "INSERT_ISSUED",
                                  "ROLLED_BACK"}
            /\ task[i].step \in {"rollback", "end", "none"}
            /\ task[i].err # "none"
            /\ task[i].step = "none" =>
                  task[i].state = "ROLLED_BACK" /\ outcome = "rejected"

\* insertRuns has rejected because the lookup call of one record failed,
\* although the other record was committed
C10_Witness ==
    /\ outcome = "rejected"
    /\ \E i, j \in Tasks :
          /\ task[i].fault /\ task[i].state = "ROLLED_BACK"
          /\ "Fact" \notin DOMAIN task[i].queries
          /\ task[j].state = "COMMITTED"

----------------------------------------------------------------------------
(* C11 *)

PhaseOrder ==
    { <<"NEW", "LOOKUP_ISSUED">>,
      <<"LOOKUP_ISSUED", "LOOKUP_RESOLVED">>,
      <<"LOOKUP_ISSUED", "ROLLED_BACK">>,
      <<"LOOKUP_RESOLVED", "INSERT_ISSUED">>,
      <<"INSERT_ISSUED", "COMMITTED">>,
      <<"INSERT_ISSUED", "ROLLED_BACK">> }

\* the record has an INSERT statement in its statement map
HasInsert(t) == \E k \in DOMAIN t.queries : t.queries[k].op = "INSERT"

\* C11: every change of a record's state is a step of NEW, LOOKUP_ISSUED,
\* LOOKUP_RESOLVED, INSERT_ISSUED, COMMITTED, with ROLLED_BACK in place of the
\* next state on an error; the lookup is resolved only by its call returning
\* without error after COMMIT, with its results kept; INSERT statements
\* appear and the bank is asked only in the step that takes a record from
\* LOOKUP_RESOLVED to INSERT_ISSUED; a record whose lookup failed ends
\* ROLLED_BACK and never has an INSERT statement.
C11_PhaseOrder ==
    [][/\ \A i \in Tasks :
            /\ task'[i].state # task[i].state
               => <<task[i].state, task'[i].state>> \in PhaseOrder
            /\ task[i].state = "LOOKUP_ISSUED"
               /\ task'[i].state = "LOOKUP_RESOLVED"
               => /\ task[i].step = "end" /\ task[i].err = "none"
                  /\ ~task[i].fault
                  /\ task'[i].keys = task[i].results
                  /\ task'[i].rel = 1
            /\ (task'[i].reqs # task[i].reqs
                \/ (HasInsert(task'[i]) /\ ~HasInsert(task[i])))
               => task[i].state = "LOOKUP_RESOLVED"
                  /\ task'[i].state = "INSERT_ISSUED"
            /\ task[i].state = "LOOKUP_ISSUED"
               /\ task'[i].state = "ROLLED_BACK"
               => ~HasInsert(task'[i]) /\ task'[i].reqs = <<>>
       /\ bank'.keys # bank.keys
          => \E i \in Tasks : /\ task[i].state = "LOOKUP_RESOLVED"
                              /\ task'[i].state = "INSERT_ISSUED"]_vars

\* one record went through every phase and was committed on its second
\* connection, the other's lookup call failed on a statement and it ended
\* ROLLED_BACK with no INSERT statement and no request to the bank
C11_Witness ==
    \E i, j \in Tasks :
        /\ task[i].state = "COMMITTED" /\ task[i].rel = 2
        /\ Len(task[i].reqs) > 0
        /\ task[j].state = "ROLLED_BACK" /\ task[j].rel = 1
        /\ task[j].err = "e"
        /\ ~HasInsert(task[j]) /\ task[j].reqs = <<>>

----------------------------------------------------------------------------
(* C12 *)

\* C12: a record ends ROLLED_BACK only when the driver reported a failure to
\* one of its own calls; the rows of a record whose insert call committed are
\* in the tables whatever happens to the other records; and every record
\* that has started and to which no failure is reported reaches COMMITTED,
\* whether or not another record failed.
C12_Independent ==
    /\ [](\A j \in Tasks :
            /\ task[j].state = "ROLLED_BACK" => task[j].fault
            /\ InsertCommitted(j) =>
                  \A t \in DOMAIN task[j].queries :
                      BagIn(RowOf(j, t), db[t]))
    /\ \A j \in 1..NumRuns :
          (task[j].state = "LOOKUP_ISSUED")
              ~> (task[j].state = "COMMITTED" \/ task[j].fault)

\* a record was rolled back after its insert call failed, and another record
\* with other content is committed with its rows in the tables
C12_Witness ==
    \E i, j \in Tasks :
        /\ task[i].state = "ROLLED_BACK" /\ task[i].fault
        /\ HasInsert(task[i])
        /\ task[j].state = "COMMITTED"
        /\ task[j].run # task[i].run
        /\ "Plugin" \in DOMAIN task[j].queries
        /\ \A t \in DOMAIN task[j].queries : BagIn(RowOf(j, t), db[t])

----------------------------------------------------------------------------
(* C13 *)

\* the record asked the bank for an id of table t (its lookup found none)
Asked(i, t) == \E n \in 1..Len(task[i].reqs) : task[i].reqs[n].table = t

\* the request of record i for table t
ReqOf(i, t) ==
    task[i].reqs[CHOOSE n \in 1..Len(task[i].reqs) : task[i].reqs[n].table = t]

\* records i and j carry the same content for dimension t, and both asked
\* the bank for it
Race(i, j, t) ==
    /\ i # j
    /\ Content(t, task[i].run) = Content(t, task[j].run)
    /\ Asked(i, t) /\ Asked(j, t)

\* one of the two requests is a miss and the other a hit with the same id,
\* and one of the two insert maps holds the INSERT of t: that of the miss
OneInserts(i, j, t) ==
    /\ ReqOf(i, t).hit # ReqOf(j, t).hit
    /\ ReqOf(i, t).value = ReqOf(j, t).value
    /\ (t \in DOMAIN task[i].queries) # (t \in DOMAIN task[j].queries)
    /\ t \in DOMAIN task[i].queries <=> ~ReqOf(i, t).hit

----------------------------------------------------------------------------
(* C14 *)

\* the text with every single quote preceded by a backslash
RECURSIVE EscapeAll(_)
EscapeAll(s) ==
    IF Len(s) = 0 THEN <<>>
    ELSE (IF s[1] = "'" THEN <<"\\", "'">> ELSE <<s[1]>>)
         \o EscapeAll(Tail(s))

\* the literals a statement holds for the Text field `field` of its table
LitsOf(stmt, field) ==
    IF stmt.op = "INSERT"
    THEN {stmt.vals[n] : n \in {m \in 1..Len(stmt.cols) :
                                    stmt.cols[m] = field.name}}
    ELSE {stmt.where[n].lit : n \in {m \in 1..Len(stmt.where) :
                                    /\ stmt.where[m].table = stmt.table
                                    /\ stmt.where[m].col = field.name}}

\* C14: in every statement a record emits, lookup SELECT or INSERT, the
\* literal of a text value is the value between single quotes with each of
\* its single quotes written \', and the server reads the literal back as
\* the value: no character of the value ends the literal early.
C14_EveryQuoteEscaped ==
    \A i \in Tasks : \A t \in DOMAIN task[i].queries :
        LET s == TableNode[t].child IN
        \A n \in 1..Len(s) :
            s[n].dbtype = "Text" /\ s[n].runkey \in DOMAIN task[i].run =>
                LET v == String(task[i].run[s[n].runkey]) IN
                \A lit \in LitsOf(task[i].queries[t], s[n]) :
                    /\ lit = <<"'">> \o EscapeAll(v) \o <<"'">>
                    /\ ParseLiteral(lit) = [ok |-> TRUE, cell |-> <<"text", v>>]

----------------------------------------------------------------------------
(* C15 *)

\* C15: when the validator rejects the result of the lookup SELECT of one
\* table, the lookup call does not fail: the record is not taken to the
\* catch block, no error is recorded for it, and it stays on its way to the
\* insert call with that table left without an id.
C15_ValidatorAbsent ==
    [][\A i \in Tasks : \A k \in Tables :
          ValidatorFail(i, k) =>
              /\ task'[i].err = "none"
              /\ task'[i].step \notin {"rollback", "end"}
              /\ task'[i].state # "ROLLED_BACK"
              /\ k \notin DOMAIN task'[i].results]_vars

----------------------------------------------------------------------------
(* C16 *)

\* C16: when DB.new() completes, the counter of every dimension table holds
\* the largest id stored in that table, 0 for an empty table, so that the
\* first id requestKey hands out for the table is that maximum plus one;
\* and no id the bank hands out on a miss is the id of a row already stored
\* in the table.
C16_StartupSeeding ==
    [][/\ \A rep \in Reps :
             New(rep) => \A t \in DimTables : bank'.keys[t] = MaxId(db, t)
       /\ \A i \in Tasks :
             task[i].state = "LOOKUP_RESOLVED"
             /\ task'[i].state = "INSERT_ISSUED" =>
                \A n \in 1..Len(task'[i].reqs) :
                    ~task'[i].reqs[n].hit =>
                        \A r \in BagToSet(db[task'[i].reqs[n].table]) :
                            r["id"][2] # task'[i].reqs[n].value]_vars

----------------------------------------------------------------------------
(* C17 *)

\* the one call made before the running one, and how it settled
Earlier(kind) == hist.log = << [ddl |-> kind, outcome |-> "resolved"] >>

\* C17: when the database held none of the schema's tables and init() has
\* resolved, a dropTables() that resolves leaves exactly the tables that
\* were there at the start; when it held all of them and dropTables() has
\* resolved, the server refuses no statement of the init() that follows,
\* and when that init() has resolved all eight tables are there again next
\* to the tables of others.
C17_DDLRoundTrip ==
    /\ hist.tables0 \cap Tables = {} /\ Earlier("init")
       /\ hist.ddl = "dropTables" /\ outcome = "resolved"
       => DOMAIN db = hist.tables0
    /\ Tables \subseteq hist.tables0 /\ Earlier("dropTables")
       /\ hist.ddl = "init"
       => /\ \A i \in Tasks :
                task[i].step = "stmts" =>
                    \A k \in DOMAIN task[i].queries :
                        ExecDDL(db, task[i].queries[k])
          /\ outcome = "resolved" =>
                /\ DOMAIN db = hist.tables0
                /\ Cardinality(DOMAIN db \cap Tables) = 8

\* all tables were dropped and created again
C17_Witness ==
    /\ Tables \subseteq hist.tables0
    /\ Earlier("dropTables")
    /\ hist.ddl = "init"
    /\ outcome = "resolved"
    /\ DOMAIN db = Tables \cup {Foreign}

\* on a database without the tables, init() and dropTables() both resolved
C17_WitnessNone ==
    /\ hist.tables0 = {Foreign}
    /\ Earlier("init")
    /\ hist.ddl = "dropTables"
    /\ outcome = "resolved"
    /\ DOMAIN db = {Foreign}

----------------------------------------------------------------------------
(* C18 *)

\* dimension n is nested in dimension p
Nested == {np \in DimTables \X DimTables :
              \E f \in FKFields(np[2]) : f.table = np[1]}

\* the record fields stored in the columns of table t itself
LeafKeys(t) ==
    LET s == TableNode[t].child IN
    {s[x].runkey : x \in {y \in 1..Len(s) : s[y].dbtype # "ForeignKey"}}

\* record b differs from record a in one field, a leaf of table n
DiffersOnlyIn(a, b, n) ==
    /\ DOMAIN a = DOMAIN b
    /\ \E k \in LeafKeys(n) \cap DOMAIN a :
          {f \in DOMAIN a : a[f] # b[f]} = {k}

\* the rows of dimension t in database d that hold the record's content
StoredIn(d, t, run) ==
    LET node == TableNode[t] IN
    RowsMatching(d, getKeysQuery(node.child, t, node.child_key, run), t)

\* the rows table t gained since the running call was made
Gained(t) == BagCardinality(db[t]) - BagCardinality(hist.before[t])

\* what the call of the last record has created, for a change in n under p
NestedChange(j, n, p) ==
    /\ Gained(n) = 1 /\ Gained(p) = 1 /\ Gained("Fact") = 1
    /\ \A t \in DimTables \ {n, p} : Gained(t) = 0
    /\ {n, p} \subseteq DOMAIN task[j].queries
    /\ BagIn(RowOf(j, n), db[n]) /\ ~BagIn(RowOf(j, n), hist.before[n])
    /\ BagIn(RowOf(j, p), db[p])
    /\ \A f \in FKFields(p) :
          f.table = n => RowOf(j, p)[f.name] = RowOf(j, n)[f.child_key]

\* C18: a record inserted after a record from which it differs in one leaf
\* of a nested dimension n under p, when the content of the earlier record
\* was stored in every dimension and the new content of n was stored in no
\* row, creates one row in n, one in p that references it, one Fact row and
\* no other row.
C18_NestedChange ==
    \A np \in Nested : \A i \in Tasks :
        LET j == Len(task) IN
        /\ i < j
        /\ task[i].state = "COMMITTED" /\ task[j].state = "COMMITTED"
        /\ DiffersOnlyIn(task[i].run, task[j].run, np[1])
        /\ \A t \in DimTables :
              Walked(schema, t, task[i].run)
              => StoredIn(hist.before, t, task[i].run) # {}
        /\ StoredIn(hist.before, np[1], task[j].run) = {}
        => NestedChange(j, np[1], np[2])

\* RunA was inserted, the cache was emptied, and RunC has been inserted
C18_Witness ==
    /\ Len(task) = 2
    /\ task[1].run = RunA /\ task[1].state = "COMMITTED"
    /\ task[2].run = RunC /\ task[2].state = "COMMITTED"
    /\ hist.evictions > 0
    /\ NestedChange(2, "PluginName", "Plugin")
    /\ BagCardinality(db["PluginName"]) = 2

----------------------------------------------------------------------------
(* C19 *)

\* the record of the running call is in its insert call, the process was
\* started again before the call was made, and the database the call found
\* stored the record's content in every dimension the record has
AfterRestart(j) ==
    /\ j = Len(task)
    /\ hist.restarts > 0
    /\ task[j].state = "INSERT_ISSUED"
    /\ \A t \in DimTables :
          Walked(schema, t, task[j].run)
          => StoredIn(hist.before, t, task[j].run) # {}

\* C19: a record inserted after a restart whose content is stored in every
\* dimension asks the bank for no key, so none is consumed, and emits the
\* Fact statement only, whose foreign keys are ids of stored rows that
\* hold the record's content (NULL for an optional dimension it lacks); and
\* when its COMMIT has succeeded the database has gained that Fact row and
\* no dimension row.
C19_Restart ==
    \A j \in Tasks :
        AfterRestart(j) =>
            /\ task[j].reqs = <<>>
            /\ DOMAIN task[j].queries = {"Fact"}
            /\ \A f \in FKFields("Fact") :
                  IF Walked(schema, f.table, task[j].run)
                  THEN \E r \in StoredIn(hist.before, f.table, task[j].run) :
                          RowOf(j, "Fact")[f.name] = r[f.child_key]
                  ELSE RowOf(j, "Fact")[f.name] = NullCell
            /\ task[j].step = "end" /\ task[j].err = "none" =>
                  /\ Gained("Fact") = 1
                  /\ BagIn(RowOf(j, "Fact"), db["Fact"])
                  /\ \A t \in DimTables : Gained(t) = 0

\* RunA was inserted, the process was started again, and RunA has been
\* inserted once more with an empty cache
C19_Witness ==
    /\ Len(task) = 2
    /\ task[1].run = RunA /\ task[2].run = RunA
    /\ AfterRestart(2)
    /\ task[2].step = "end"
    /\ bank.cache = EmptyMap
    /\ BagCardinality(db["Fact"]) = 2
    /\ BagCardinality(db["Plugin"]) = 1

----------------------------------------------------------------------------
(* C20 *)

\* C20: the handler sends at most one reply, and the step that sends it is
\* the first one after the promise of log has settled: 200 only when the
\* promise resolved, every record of the request being committed; 500 when
\* it rejected with a SqlError; 400 when it rejected with another error or
\* when log threw before insertRuns was called. No other step sends or
\* changes a reply, and a settled promise is answered before anything else
\* happens.
C20_ReplyMapping ==
    [][/\ hist'.replies # hist.replies =>
             /\ hist.replies = 0 /\ hist'.replies = 1
             /\ hist'.reply \in {200, 400, 500}
             /\ hist'.reply = 200 <=>
                   /\ outcome = "resolved"
                   /\ \A i \in Tasks : task[i].state = "COMMITTED"
             /\ hist'.reply = 500 <=>
                   /\ outcome = "rejected"
                   /\ \E i \in Tasks : /\ task[i].state = "ROLLED_BACK"
                                         /\ task[i].cls = "SqlError"
             /\ hist'.reply = 400 <=>
                   \/ outcome = "pending"
                      /\ \A i \in Tasks : task[i].state = "NEW"
                   \/ /\ outcome = "rejected"
                      /\ \E i \in Tasks : /\ task[i].state = "ROLLED_BACK"
                                            /\ task[i].cls # "SqlError"
       /\ hist'.replies = hist.replies => hist'.reply = hist.reply
       /\ outcome # "pending" /\ hist.replies = 0 => hist'.replies = 1]_vars

\* a record's lookup was rejected by zod and the request was answered 400
\* while another record of the request went on
C20_Witness ==
    /\ hist.replies = 1
    /\ hist.reply = 400
    /\ \E i \in Tasks : task[i].state = "ROLLED_BACK" /\ task[i].cls = "ZodError"
    /\ \E i \in Tasks : task[i].state = "COMMITTED"

\* a request answered 200
C20_Witness200 == hist.replies = 1 /\ hist.reply = 200

\* a request answered 500
C20_Witness500 == hist.replies = 1 /\ hist.reply = 500

----------------------------------------------------------------------------
(* C21 *)

\* the argument is key k, a '=' and a value
HasForm(arg, k) ==
    /\ Len(arg) > Len(k)
    /\ SubSeq(arg, 1, Len(k)) = k
    /\ arg[Len(k) + 1] = "="

\* the value of an argument of the form k=value: all that follows the '='
GivenValue(arg, k) == SubSeq(arg, Len(k) + 2, Len(arg))

\* the places of the command line where k is given
GivenAt(k) == {n \in 1..Len(cli.input) : HasForm(cli.input[n], k)}

Defaults == {<<"d">>, <<>>}

\* C21: when the constructor has returned, for every key k that takes a
\* value and every default d, fallback(d).get(k) is d when no argument of
\* the command line has the form k=value, and otherwise the value of the
\* last argument of that form.
C21_ValueLookup ==
    Constructed =>
        \A k \in Range(multiArgs) : \A d \in Defaults :
            IF GivenAt(k) = {} THEN get(cli.args, d, <<k>>) = d
            ELSE get(cli.args, d, <<k>>) =
                    GivenValue(cli.input[SetMax(GivenAt(k))], k)

\* C21 for values without a '=': the same, when no value given for k
\* holds a '='
C21_ValueLookupPlain ==
    Constructed =>
        \A k \in Range(multiArgs) : \A d \in Defaults :
            IF GivenAt(k) = {} THEN get(cli.args, d, <<k>>) = d
            ELSE (\A n \in GivenAt(k) :
                     "=" \notin Range(GivenValue(cli.input[n], k)))
                 => get(cli.args, d, <<k>>) =
                       GivenValue(cli.input[SetMax(GivenAt(k))], k)

----------------------------------------------------------------------------
(* C22 *)

\* the argument the loop is at has a key that is neither a flag nor a key
\* that takes a value
AtUnknownKey ==
    KeyOf(cli.input[cli.pos]) \notin Range(singleArgs) \cup Range(multiArgs)

\* the argument the loop is at is a key that takes a value, with no '='
AtBareKey ==
    /\ KeyOf(cli.input[cli.pos]) \in Range(multiArgs)
    /\ "=" \notin Range(cli.input[cli.pos])

\* what the arguments before place p give for key k
StoredBefore(p, k) ==
    LET at == {n \in 1..(p - 1) : KeyOf(cli.input[n]) = k} IN
    IF at = {} THEN Null ELSE ValueOf(cli.input[SetMax(at)])

\* C22: the turn of the loop at an argument with an unknown key ends the
\* process with process.exit(-1), the turn at a known key without '=value'
\* ends it with process.exit(1), and the process is ended by nothing else;
\* once it has ended, the values stored are those of the arguments before
\* the offending one: neither that argument nor a later one is stored.
C22_ArgumentErrors ==
    /\ [][InLoop =>
             /\ AtUnknownKey => cli'.exit = <<-1>> /\ cli'.args = cli.args
             /\ AtBareKey => cli'.exit = <<1>> /\ cli'.args = cli.args
             /\ cli'.exit # <<>> => AtUnknownKey \/ AtBareKey]_vars
    /\ [](cli.exit # <<>> =>
             /\ cli.pos <= Len(cli.input)
             /\ \A k \in Range(multiArgs) :
                   cli.args[k] = StoredBefore(cli.pos, k))

\* the first argument has an unknown key, the second one gives --host a
\* value: the process has ended with -1 and --host is not set
C22_Witness ==
    /\ cli.exit = <<-1>>
    /\ cli.pos = 1
    /\ Len(cli.input) = 2
    /\ HasForm(cli.input[2], multiArgs[1])
    /\ cli.args[multiArgs[1]] = Null

\* --host was given a value, then --host stands alone: ended with 1
C22_WitnessBare ==
    /\ cli.exit = <<1>>
    /\ cli.pos = 2
    /\ cli.input[2] = multiArgs[1]
    /\ cli.args[multiArgs[1]] # Null

----------------------------------------------------------------------------
(* C23 *)

\* the step is a call requestKey(key, value)
Called(key, value) ==
    /\ hist'.calls = hist.calls + 1
    /\ hist'.last.table = key
    /\ hist'.last.content = value

\* a cache entry exists for (key, value): a miss for that table and content
\* stored one, and the timer that miss set has not fired
HasEntry(key, value) ==
    \E n \in (hist.evictions + 1)..Len(hist.sched) :
        hist.sched[n].table = key /\ hist.sched[n].content = value

\* where the bank keeps the entry of (key, value): cache[table + content]
CacheKeyOf(key, value) == TableChars[key] \o value

\* C23: a call requestKey(key, value) made while no cache entry exists for
\* (key, value) raises the counter of key by exactly one, returns the new
\* counter with hit = false, stores it under (key, value) and sets one
\* timer for that entry; the counters of the other tables and the other
\* cache entries stay as they were.
C23_Miss ==
    [][\A key \in DimTables : \A value \in BankContents :
          Called(key, value) /\ ~HasEntry(key, value) =>
              /\ bank'.keys[key] = bank.keys[key] + 1
              /\ hist'.last.value = bank'.keys[key]
              /\ ~hist'.last.hit
              /\ DOMAIN bank'.cache =
                    DOMAIN bank.cache \cup {CacheKeyOf(key, value)}
              /\ bank'.cache[CacheKeyOf(key, value)] = bank'.keys[key]
              /\ bank'.timers = Append(bank.timers, CacheKeyOf(key, value))
              /\ \A t \in DimTables \ {key} : bank'.keys[t] = bank.keys[t]
              /\ \A k \in DOMAIN bank.cache \ {CacheKeyOf(key, value)} :
                    bank'.cache[k] = bank.cache[k]]_vars

----------------------------------------------------------------------------
(* C24 *)

\* the id stored by the miss whose entry for (key, value) exists
EntryId(key, value) ==
    LET n == CHOOSE x \in (hist.evictions + 1)..Len(hist.sched) :
                 /\ hist.sched[x].table = key
                 /\ hist.sched[x].content = value
    IN  hist.sched[n].id

\* C24: a call requestKey(key, value) made while a cache entry exists for
\* (key, value) returns the id of that entry with hit = true and leaves the
\* bank as it was: every counter, every cache entry and every pending
\* timer, in their order.
C24_Hit ==
    [][\A key \in DimTables : \A value \in BankContents :
          Called(key, value) /\ HasEntry(key, value) =>
              /\ hist'.last.hit
              /\ hist'.last.value = EntryId(key, value)
              /\ bank'.keys = bank.keys
              /\ bank'.cache = bank.cache
              /\ bank'.timers = bank.timers
              /\ hist'.sched = hist.sched]_vars

\* the last call was a hit on the entry of its own table and content,
\* made after another entry had been evicted
C24_Witness ==
    /\ hist.last.hit
    /\ hist.evictions > 0
    /\ HasEntry(hist.last.table, hist.last.content)
    /\ hist.last.value = EntryId(hist.last.table, hist.last.content)

----------------------------------------------------------------------------
(* C25 *)

\* C25: from seeded counters on, no two misses of requestKey for the same
\* table return the same id, whatever the order of the calls, the hits
\* between them and the evictions between them.
C25_UniqueIds ==
    \A n, m \in 1..Len(hist.sched) :
        n # m /\ hist.sched[n].table = hist.sched[m].table
            => hist.sched[n].id # hist.sched[m].id

\* the same content missed twice for one table, around an eviction, with a
\* hit among the calls
C25_Witness ==
    /\ hist.evictions > 0
    /\ hist.last.hit
    /\ \E n, m \in 1..Len(hist.sched) :
          /\ n < m
          /\ hist.sched[n].table = hist.sched[m].table
          /\ hist.sched[n].content = hist.sched[m].content
          /\ hist.sched[n].id < hist.sched[m].id

----------------------------------------------------------------------------
(* C26 *)

\* the cache entry of (key, value) has been evicted: the timer of a miss
\* for that table and content has fired, and no later miss stored it again
Evicted(key, value) ==
    /\ \E n \in 1..hist.evictions :
          hist.sched[n].table = key /\ hist.sched[n].content = value
    /\ ~HasEntry(key, value)

\* the ids handed out for table key so far
Allocated(key) ==
    {hist.sched[n].id : n \in {m \in 1..Len(hist.sched) :
                                  hist.sched[m].table = key}}

\* C26: once the cache entry of (key, value) has been evicted, the next
\* call requestKey(key, value) is a miss, returns an id greater than every
\* id handed out for that table before, and stores the entry again with the
\* new id.
C26_MissAfterEviction ==
    [][\A key \in DimTables : \A value \in BankContents :
          Called(key, value) /\ Evicted(key, value) =>
              /\ ~hist'.last.hit
              /\ \A id \in Allocated(key) : hist'.last.value > id
              /\ CacheKeyOf(key, value) \in DOMAIN bank'.cache
              /\ bank'.cache[CacheKeyOf(key, value)] = hist'.last.value
              /\ HasEntry(key, value)']_vars

----------------------------------------------------------------------------
(* C27 *)

\* the pending timers that will delete cache[k]
Pending(b, k) == {n \in 1..Len(b.timers) : b.timers[n] = k}

\* every cache entry has one pending timer, and every pending timer has its
\* entry
OneTimerEach(b) ==
    /\ \A k \in DOMAIN b.cache : Cardinality(Pending(b, k)) = 1
    /\ \A n \in 1..Len(b.timers) : b.timers[n] \in DOMAIN b.cache

\* the cache key of the n-th miss
KeyAt(n) == CacheKeyOf(hist.sched[n].table, hist.sched[n].content)

\* the step is the firing of a timer
Fired == hist'.evictions = hist.evictions + 1

\* C27: every cache entry has exactly one pending eviction, set by the call
\* that inserted the entry; an entry leaves the cache only when that
\* eviction fires; a hit changes neither the entries nor the pending
\* evictions; and the firing of the eviction set by one miss removes the
\* entry of that miss and leaves every entry inserted by a later miss.
C27_EntryLifetime ==
    [][/\ OneTimerEach(bank')
       /\ \A k \in DOMAIN bank'.cache \ DOMAIN bank.cache :
             /\ hist'.calls = hist.calls + 1
             /\ bank'.timers = Append(bank.timers, k)
       /\ \A k \in DOMAIN bank.cache \ DOMAIN bank'.cache :
             /\ Fired
             /\ k = KeyAt(hist.evictions + 1)
             /\ bank.cache[k] = hist.sched[hist.evictions + 1].id
             /\ k = Head(bank.timers)
             /\ bank'.timers = Tail(bank.timers)
       /\ (hist'.calls = hist.calls + 1 /\ hist'.last.hit)
             => bank'.cache = bank.cache /\ bank'.timers = bank.timers
       /\ Fired =>
             \A m \in (hist.evictions + 2)..Len(hist.sched) :
                 /\ KeyAt(m) # KeyAt(hist.evictions + 1)
                 /\ KeyAt(m) \in DOMAIN bank'.cache
                 /\ bank'.cache[KeyAt(m)] = hist.sched[m].id]_vars

\* a timer has fired while a later entry was in the cache, the key it
\* removed has been stored again, and the last call was a hit
C27_Witness ==
    /\ hist.evictions > 0
    /\ hist.last.hit
    /\ Len(hist.sched) > hist.evictions + 1
    /\ \E n \in 1..hist.evictions :
          \E m \in (hist.evictions + 1)..Len(hist.sched) :
              KeyAt(n) = KeyAt(m)
    /\ OneTimerEach(bank)

----------------------------------------------------------------------------
(* C28 *)

\* the table whose statement holds the foreign key to dimension t
ParentTable(t) ==
    IF \E np \in Nested : np[1] = t
    THEN (CHOOSE np \in Nested : np[1] = t)[2]
    ELSE "Fact"

\* the dimensions nested under t
Below(t) == {np[1] : np \in {x \in Nested : x[2] = t}}

\* the literal a statement gives to column c
ValueIn(stmt, c) ==
    stmt.vals[CHOOSE n \in 1..Len(stmt.cols) : stmt.cols[n] = c]

\* the step builds the insert map of record i from its lookup result
Builds(i) ==
    /\ i \in DOMAIN task
    /\ task[i].state = "LOOKUP_RESOLVED"
    /\ task'[i].state = "INSERT_ISSUED"

\* C28: when the lookup of a record produced an id for a dimension, the
\* insert map of the record has no INSERT for that dimension nor for a
\* dimension nested under it, requestKey is not called for the dimension,
\* and the statement of the table above it, when the map has one (it always
\* has the one of Fact), carries the id of the lookup in its foreign-key
\* column.
C28_LookupHit ==
    [][\A i \in DOMAIN task : Builds(i) =>
          \A t \in DOMAIN task[i].keys :
              /\ t \notin DOMAIN task'[i].queries
              /\ \A u \in Below(t) : u \notin DOMAIN task'[i].queries
              /\ \A n \in 1..Len(task'[i].reqs) : task'[i].reqs[n].table # t
              /\ task'[i].keys[t] = task[i].keys[t]
              /\ ParentTable(t) \in DOMAIN task'[i].queries =>
                    ValueIn(task'[i].queries[ParentTable(t)],
                            TableNode[t].name)
                      = valueOrNull(Num(task[i].keys[t]))]_vars

\* a record whose lookup found a nested dimension and not the dimension
\* above it: the INSERT of the dimension above carries the id found
C28_Witness ==
    \E i \in DOMAIN task : \E np \in Nested :
        /\ task[i].state = "INSERT_ISSUED"
        /\ np[2] \in DOMAIN task[i].queries
        /\ np[1] \notin DOMAIN task[i].queries
        /\ \A n \in 1..Len(task[i].reqs) : task[i].reqs[n].table # np[1]
        /\ \E r \in BagToSet(db[np[1]]) :
              valueOrNull(Num(r["id"][2])) =
                  ValueIn(task[i].queries[np[2]], TableNode[np[1]].name)

\* a record whose lookup found a dimension and the one nested under it
C28_WitnessBoth ==
    \E i \in DOMAIN task : \E np \in Nested :
        /\ task[i].state = "INSERT_ISSUED"
        /\ task[i].reqs = <<>>
        /\ DOMAIN task[i].queries = {"Fact"}
        /\ {np[1], np[2]} \subseteq DOMAIN task[i].keys
        /\ ValueIn(task[i].queries["Fact"], TableNode[np[2]].name)
              = valueOrNull(Num(task[i].keys[np[2]]))

----------------------------------------------------------------------------
(* C29 *)

\* the statement of table t in an insert map is an INSERT whose id column
\* carries id
InsertsWith(q, t, id) ==
    /\ t \in DOMAIN q
    /\ q[t].op = "INSERT" /\ q[t].table = t
    /\ Cardinality({n \in 1..Len(q[t].cols) :
                       q[t].cols[n] = TableNode[t].child_key}) = 1
    /\ ValueIn(q[t], TableNode[t].child_key) = valueOrNull(Num(id))

\* C29: when the insert map of a record is built, every dimension for which
\* requestKey was called is one the lookup produced no id for.  If the call
\* reported a hit, the map has no INSERT for the dimension nor for a
\* dimension nested under it, and the statement of the table above it, when
\* the map has one, carries the cached id in its foreign-key column.  If it
\* reported a miss, the map has one INSERT for the dimension, whose id
\* column carries the id the call allocated: the counter of the table
\* before the step, plus one.
C29_CacheHit ==
    [][\A i \in DOMAIN task : Builds(i) =>
          \A n \in 1..Len(task'[i].reqs) :
              LET q == task'[i].reqs[n]
                  t == q.table
                  m == task'[i].queries
              IN  /\ t \notin DOMAIN task[i].keys
                  /\ \A k \in 1..Len(task'[i].reqs) :
                        task'[i].reqs[k].table = t => k = n
                  /\ bank'.cache[CacheKeyOf(t, q.content)] = q.value
                  /\ q.hit =>
                        /\ CacheKeyOf(t, q.content) \in DOMAIN bank.cache
                        /\ t \notin DOMAIN m
                        /\ \A u \in Below(t) : u \notin DOMAIN m
                        /\ ParentTable(t) \in DOMAIN m =>
                              ValueIn(m[ParentTable(t)], TableNode[t].name)
                                = valueOrNull(Num(q.value))
                  /\ ~q.hit =>
                        /\ q.value = bank.keys[t] + 1
                        /\ InsertsWith(m, t, q.value)]_vars

\* a record whose nested dimension was a cache hit under a dimension that
\* was a miss: the INSERT of the dimension above carries the cached id
C29_Witness ==
    \E i \in DOMAIN task : \E np \in Nested :
        /\ task[i].state = "INSERT_ISSUED"
        /\ Asked(i, np[1]) /\ ReqOf(i, np[1]).hit
        /\ Asked(i, np[2]) /\ ~ReqOf(i, np[2]).hit
        /\ np[1] \notin DOMAIN task[i].queries
        /\ InsertsWith(task[i].queries, np[2], ReqOf(i, np[2]).value)
        /\ ValueIn(task[i].queries[np[2]], TableNode[np[1]].name)
              = valueOrNull(Num(ReqOf(i, np[1]).value))

\* a record for which a dimension with a nested one was a cache hit
C29_WitnessAbove ==
    \E i \in DOMAIN task : \E np \in Nested :
        /\ task[i].state = "INSERT_ISSUED"
        /\ Asked(i, np[2]) /\ ReqOf(i, np[2]).hit
        /\ ~Asked(i, np[1])
        /\ np[1] \notin DOMAIN task[i].keys
        /\ {np[1], np[2]} \cap DOMAIN task[i].queries = {}

----------------------------------------------------------------------------
(* C30 *)

\* the lookup map of record i is the one its lookup call is running with
InLookup(i) == task[i].state = "LOOKUP_ISSUED"

\* C30: the lookup map getKeys builds for a record has one entry for every
\* dimension table of the schema, nested ones included, that is not an
\* optional dimension whose field the record lacks; the entry of a table is
\* one SELECT on that table; and the map has no entry for Fact nor for an
\* optional dimension whose field is absent.
C30_LookupMapShape ==
    \A i \in DOMAIN task : InLookup(i) =>
        LET m == task[i].queries IN
        /\ DOMAIN m = {t \in DimTables : Walked(schema, t, task[i].run)}
        /\ "Fact" \notin DOMAIN m
        /\ \A t \in DOMAIN m :
              /\ m[t].op = "SELECT_MAX"
              /\ m[t].table = t
              /\ m[t].id = TableNode[t].child_key
        /\ \A t \in DimTables :
              /\ "optional" \notin DOMAIN TableNode[t] => t \in DOMAIN m
              /\ ("optional" \in DOMAIN TableNode[t]
                    /\ TableNode[t].optional \notin DOMAIN task[i].run)
                  => t \notin DOMAIN m

\* a record with errorMessage and one without are in their lookups: seven
\* statements for the first, six for the second
C30_Witness ==
    \E i, j \in DOMAIN task :
        /\ InLookup(i) /\ InLookup(j)
        /\ "errorMessage" \in DOMAIN task[i].run
        /\ "errorMessage" \notin DOMAIN task[j].run
        /\ DOMAIN task[i].queries = DimTables
        /\ DOMAIN task[j].queries = DimTables \ {"ErrorMessage"}

----------------------------------------------------------------------------
(* C31 *)

\* the step sends conn.commit() for the call record i is in
CommitIssued(i) == task[i].step # "commit" /\ task'[i].step = "commit"

\* every statement of the call record i is in succeeds on the server and
\* its result passes the validator (the mappers do not throw)
AllPass(i) ==
    LET q == task[i].queries
        res == [k \in DOMAIN q |-> ExecStmt(db, q[k])]
    IN  /\ \A k \in DOMAIN q : res[k].ok
        /\ \A k \in DOMAIN q :
              q[k].op = "SELECT_MAX" => zIdResponse(res[k].rows).success

\* the results of the call record i is in, validated and mapped
Mapped(i) ==
    LET q == task[i].queries IN
    Reduce(q, [k \in DOMAIN q |-> ExecStmt(db, q[k])])

\* C31: in a call of DB.query, commit is sent only from the point where
\* every statement has succeeded and every result has passed validator and
\* mapper; when a statement or a validator fails, the call goes to its
\* rollback with the error, and a call that has an error never sends commit.
C31_CommitOrder ==
    [][\A i \in DOMAIN task :
          /\ CommitIssued(i) =>
                /\ task[i].step = "stmts" /\ task[i].conn # 0
                /\ task[i].err = "none"
                /\ AllPass(i)
                /\ task'[i].results = Mapped(i)
          /\ (task[i].step = "stmts" /\ task'[i].step # "stmts"
                 /\ ~CommitIssued(i)) =>
                /\ task'[i].step = "rollback"
                /\ task'[i].err # "none"
                /\ task'[i].conn = task[i].conn
          /\ task[i].err # "none" =>
                /\ task'[i].step # "commit"
                /\ task'[i].state \in {task[i].state, "ROLLED_BACK"}]_vars

\* one record's insert call is at its rollback after a failure of its
\* statements while the other record's call has sent its commit
C31_Witness ==
    \E i, j \in DOMAIN task :
        /\ task[i].state = "INSERT_ISSUED" /\ task[i].step = "rollback"
        /\ task[i].fault /\ task[i].cls = "SqlError"
        /\ task[j].state = "INSERT_ISSUED" /\ task[j].step = "commit"

\* a lookup call is at its rollback after its validator threw
C31_WitnessValidator ==
    \E i \in DOMAIN task :
        /\ task[i].state = "LOOKUP_ISSUED" /\ task[i].step = "rollback"
        /\ task[i].cls = "ZodError"

----------------------------------------------------------------------------
(* C32 *)

\* the step is the call of log
Logs == ~hist.logged /\ hist'.logged

\* the records of a body
RecordsOf(body) == body.items

\* C32: log takes one record or an array and parses every record; it calls
\* insertRuns, with the parsed records in their order, exactly when every
\* record parses; when a record of the body fails, insertRuns is not called
\* and nothing is inserted for the request, then or later.
C32_Revalidation ==
    [][/\ \A body \in Bodies : (Logs /\ hist'.body = body) =>
             LET run == RecordsOf(body) IN
             /\ hist'.called <=> \A n \in 1..Len(run) : zrun(run[n]).success
             /\ hist'.called =>
                   /\ Len(task') = Len(run)
                   /\ \A n \in 1..Len(run) :
                         /\ task'[n].run = zrun(run[n]).data
                         /\ task'[n].state = "LOOKUP_ISSUED"
             /\ ~hist'.called => outcome' = "rejected"
       /\ (hist'.logged /\ ~hist'.called) =>
             /\ task' = <<>>
             /\ db' = EmptyDB
             /\ bank' = bank
             /\ conns' = conns]_vars

\* an array whose first record parses and whose second does not was
\* logged: insertRuns was not called and the database is empty
C32_Witness ==
    /\ hist.logged /\ ~hist.called
    /\ hist.body.array /\ Len(hist.body.items) = 2
    /\ zrun(hist.body.items[1]).success
    /\ ~zrun(hist.body.items[2]).success
    /\ db = EmptyDB /\ task = <<>> /\ outcome = "rejected"

\* an array of two records that parse was logged and both are committed
C32_WitnessArray ==
    /\ hist.called /\ hist.body.array /\ Len(task) = 2
    /\ \A i \in DOMAIN task : task[i].state = "COMMITTED"
    /\ BagCardinality(db["Fact"]) = 2

\* one record that is not in an array was logged and is committed
C32_WitnessOne ==
    /\ hist.called /\ ~hist.body.array /\ Len(task) = 1
    /\ task[1].state = "COMMITTED"
    /\ BagCardinality(db["Fact"]) = 1

----------------------------------------------------------------------------
(* C33 *)

\* the miss that created the entry now stored under cache key k
CreatorOf(k) ==
    CHOOSE n \in (hist.evictions + 1)..Len(hist.sched) : KeyAt(n) = k

\* C33: a call requestKey(key, value) reports a hit only on an entry that a
\* call for the same table created, and the id it then returns is the id
\* of that call; it never hits, nor returns the id of, an entry created by
\* a call for another table.
C33_DisjointNamespaces ==
    [][\A key \in DimTables : \A value \in BankContents :
          (Called(key, value) /\ hist'.last.hit) =>
              LET n == CreatorOf(CacheKeyOf(key, value)) IN
              /\ hist.sched[n].table = key
              /\ hist'.last.value = hist.sched[n].id]_vars

----------------------------------------------------------------------------
(* C34 *)

\* the ids record i has for its dimensions once its insert map is built, in
\* the step that builds it: those of its lookup, and for the others those
\* requestKey returned
Resolved(i) ==
    LET found == task[i].keys
        reqs  == task'[i].reqs
        asked == {reqs[n].table : n \in 1..Len(reqs)}
    IN  [t \in DOMAIN found \cup asked |->
            IF t \in DOMAIN found THEN found[t]
            ELSE reqs[CHOOSE n \in 1..Len(reqs) : reqs[n].table = t].value]

\* C34: in the insert map of a record, every statement P (the one of Fact
\* or of a dimension) carries, in its foreign-key column for a dimension C,
\* the id the record resolved for C from its lookup, a cache hit or a new
\* allocation, an id being resolved for every C but an optional dimension
\* whose field the record lacks, for which P carries NULL; and an INSERT
\* for C carries that same id in its child_key column.
C34_KeyPlumbing ==
    [][\A i \in DOMAIN task : Builds(i) =>
          LET m == task'[i].queries
              ids == Resolved(i)
          IN  /\ "Fact" \in DOMAIN m
              /\ \A P \in DOMAIN m : \A f \in FKFields(P) :
                    IF Walked(schema, f.table, task[i].run)
                    THEN /\ f.table \in DOMAIN ids
                         /\ ValueIn(m[P], f.name)
                              = valueOrNull(Num(ids[f.table]))
                    ELSE /\ f.table \notin DOMAIN ids
                         /\ ValueIn(m[P], f.name) = NullToken
              /\ \A C \in DOMAIN m \ {"Fact"} :
                    /\ C \in DOMAIN ids
                    /\ InsertsWith(m, C, ids[C])]_vars

\* the insert map of a record holds ids of the three kinds: one dimension
\* found by the lookup, one a cache hit, one newly allocated and inserted
C34_Witness ==
    \E i \in DOMAIN task :
        /\ task[i].state = "INSERT_ISSUED"
        /\ \E t \in DOMAIN task[i].keys : ~Asked(i, t)
        /\ \E t \in DimTables : Asked(i, t) /\ ReqOf(i, t).hit
        /\ \E np \in Nested :
              /\ Asked(i, np[2]) /\ ~ReqOf(i, np[2]).hit
              /\ InsertsWith(task[i].queries, np[2], ReqOf(i, np[2]).value)
              /\ ValueIn(task[i].queries["Fact"], TableNode[np[2]].name)
                    = valueOrNull(Num(ReqOf(i, np[2]).value))
              /\ ValueIn(task[i].queries[np[2]], TableNode[np[1]].name)
                    = valueOrNull(Num(task[i].keys[np[1]]))

----------------------------------------------------------------------------
(* C35 *)

\* the step is one of the failing path of record i's insert call: the
\* failure itself, the rollback, the release, the rejection
FailsInsert(i) ==
    /\ task[i].state = "INSERT_ISSUED"
    /\ task'[i] # task[i]
    /\ task'[i].err # "none" \/ task'[i].state = "ROLLED_BACK"

\* the ids requestKey allocated for record i are consumed and cached
Kept(b, tk, i) ==
    \A n \in 1..Len(tk[i].reqs) :
        LET q == tk[i].reqs[n] IN
        ~q.hit =>
            /\ b.keys[q.table] >= q.value
            /\ CacheKeyOf(q.table, q.content) \in DOMAIN b.cache
            /\ b.cache[CacheKeyOf(q.table, q.content)] = q.value

\* C35: no step of the failing path of an insert call (a connection that
\* cannot be acquired, a failed statement or commit, the rollback, the
\* release) changes the bank: the ids allocated for the record stay
\* consumed and cached.  No counter is ever lowered, and an entry leaves
\* the cache only in the step in which the oldest timer fires, for the key
\* of that timer.
C35_BankNotReverted ==
    [][/\ \A i \in DOMAIN task :
             FailsInsert(i) =>
                 bank' = bank /\ (Kept(bank, task, i) => Kept(bank', task', i))
       /\ \A t \in DimTables : bank'.keys[t] >= bank.keys[t]
       /\ \A k \in DOMAIN bank.cache :
             IF k \in DOMAIN bank'.cache THEN bank'.cache[k] = bank.cache[k]
             ELSE /\ hist'.evictions = hist.evictions + 1
                  /\ k = Head(bank.timers)
       /\ (hist.evictions = 0 /\ hist'.evictions = 0) =>
             \A i \in DOMAIN task :
                 (task'[i].state = "ROLLED_BACK" /\ task'[i].reqs # <<>>)
                     => Kept(bank', task', i)]_vars

\* a record whose insert call failed after it had acquired its connection
\* is rolled back, nothing of it is stored, and its ids are still consumed
\* and cached
C35_Witness ==
    \E i \in DOMAIN task :
        /\ task[i].state = "ROLLED_BACK" /\ task[i].acq = 2
        /\ \E n \in 1..Len(task[i].reqs) : ~task[i].reqs[n].hit
        /\ Kept(bank, task, i)
        /\ hist.evictions = 0
        /\ \A t \in DimTables : db[t] = EmptyBag

\* the same for a record whose insert call could not acquire a connection
C35_WitnessAcquire ==
    \E i \in DOMAIN task :
        /\ task[i].state = "ROLLED_BACK" /\ task[i].acq = 1
        /\ \E n \in 1..Len(task[i].reqs) : ~task[i].reqs[n].hit
        /\ Kept(bank, task, i)
        /\ hist.evictions = 0

----------------------------------------------------------------------------
(* C36 *)

\* the step belongs to the lookup call of record i: its start, one of its
\* awaits, its failure, its rollback, its release
LookupStep(i) ==
    /\ task'[i] # task[i]
    /\ task[i].state = "LOOKUP_ISSUED" \/ task'[i].state = "LOOKUP_ISSUED"

\* C36: the statement map of a lookup call holds SELECT statements only,
\* and no step of a lookup call, successful or failing, calls requestKey,
\* changes a counter or the cache of the bank, writes a row to the database
\* or leaves a write in the transaction of its connection.
C36_LookupReadOnly ==
    [][\A i \in DOMAIN task : LookupStep(i) =>
          /\ \A k \in DOMAIN task'[i].queries :
                task'[i].queries[k].op = "SELECT_MAX"
          /\ task'[i].reqs = <<>>
          /\ bank' = bank
          /\ db' = db
          /\ \A c \in Conns : conns'[c].owner = i => conns'[c].txn = EmptyMap
          /\ task[i].conn # 0 => conns'[task[i].conn].txn = EmptyMap]_vars

\* a lookup failed and was rolled back while the bank held the ids of the
\* other record and the database its rows
C36_Witness ==
    \E i, j \in DOMAIN task :
        /\ task[i].state = "ROLLED_BACK" /\ task[i].fault
        /\ task[i].reqs = <<>> /\ ~HasInsert(task[i])
        /\ task[j].state = "COMMITTED"
        /\ DOMAIN bank.cache # {}
        /\ db["Fact"] # EmptyBag

\* a lookup succeeded and found ids while the bank held entries
C36_WitnessFound ==
    \E i \in DOMAIN task :
        /\ task[i].state = "LOOKUP_RESOLVED"
        /\ DOMAIN task[i].keys # {}
        /\ DOMAIN bank.cache # {}

----------------------------------------------------------------------------
(* C37 *)

\* the cache keys of table t: the table's name followed by a content
KeysOf(b, t) ==
    {k \in DOMAIN b.cache :
        /\ Len(k) >= Len(TableChars[t])
        /\ SubSeq(k, 1, Len(TableChars[t])) = TableChars[t]}

\* C37: the step that builds the insert map of a record without
\* errorMessage makes no call of requestKey for ErrorMessage, and leaves
\* the counter of ErrorMessage and the cache entries of ErrorMessage as
\* they were, whatever it allocates for the other dimensions.
C37_NoKeyForAbsent ==
    [][\A i \in DOMAIN task :
          (Builds(i) /\ "errorMessage" \notin DOMAIN task[i].run) =>
              /\ \A n \in 1..Len(task'[i].reqs) :
                    task'[i].reqs[n].table # "ErrorMessage"
              /\ "ErrorMessage" \notin DOMAIN task'[i].keys
              /\ "ErrorMessage" \notin DOMAIN task'[i].queries
              /\ bank'.keys["ErrorMessage"] = bank.keys["ErrorMessage"]
              /\ KeysOf(bank', "ErrorMessage") = KeysOf(bank, "ErrorMessage")
              /\ \A k \in KeysOf(bank, "ErrorMessage") :
                    bank'.cache[k] = bank.cache[k]
              /\ Len(bank'.timers) - Len(bank.timers)
                    = Misses(task'[i].reqs, "Plugin")
                      + Misses(task'[i].reqs, "PluginName")
                      + Misses(task'[i].reqs, "Browser")
                      + Misses(task'[i].reqs, "BrowserName")
                      + Misses(task'[i].reqs, "Url")
                      + Misses(task'[i].reqs, "Domain")]_vars

\* a record without errorMessage has allocated ids for other dimensions
\* while the counter and the cache entry of ErrorMessage are those the
\* other record left
C37_Witness ==
    \E i, j \in DOMAIN task :
        /\ "errorMessage" \notin DOMAIN task[i].run
        /\ task[i].state = "INSERT_ISSUED"
        /\ \E n \in 1..Len(task[i].reqs) : ~task[i].reqs[n].hit
        /\ Asked(j, "ErrorMessage") /\ ~ReqOf(j, "ErrorMessage").hit
        /\ bank.keys["ErrorMessage"] = ReqOf(j, "ErrorMessage").value
        /\ KeysOf(bank, "ErrorMessage") # {}

\* a record without errorMessage has allocated ids and the counter of
\* ErrorMessage is still 0
C37_WitnessAlone ==
    \E i \in DOMAIN task :
        /\ "errorMessage" \notin DOMAIN task[i].run
        /\ task[i].state = "INSERT_ISSUED"
        /\ \E n \in 1..Len(task[i].reqs) : ~task[i].reqs[n].hit
        /\ bank.keys["ErrorMessage"] = 0
        /\ bank.keys["Plugin"] > 0

----------------------------------------------------------------------------
(* C38 *)

\* the connections record i holds
HeldBy(i) == {c \in Conns : conns[c].owner = i}

\* C38: a call of DB.query holds at most one connection and holds none
\* while it asks the pool for one; a record holds none between its lookup
\* call and its insert call, nor when it is done.  So with a pool of one
\* connection and three concurrent records, when every statement, commit,
\* rollback and release terminates and the pool hands an idle connection to
\* a waiting call, every record is committed or rolled back and the
\* promise of insertRuns resolves or rejects.
C38_NoHoldAndWait ==
    /\ [](\A i \in DOMAIN task :
            /\ Cardinality(HeldBy(i)) <= 1
            /\ task[i].step = "acquire" => HeldBy(i) = {}
            /\ task[i].state \in {"NEW", "LOOKUP_RESOLVED", "COMMITTED",
                                  "ROLLED_BACK"} => HeldBy(i) = {}
            /\ HeldBy(i) # {} => HeldBy(i) = {task[i].conn})
    /\ \A i \in 1..(NumRuns + 1) :
          (task[i].state = "LOOKUP_ISSUED") ~> Terminal(i)
    /\ (\E i \in DOMAIN task : task[i].state = "LOOKUP_ISSUED")
          ~> (outcome # "pending")

\* the three records are committed through the one connection, each having
\* acquired it twice
C38_Witness ==
    /\ \A i \in DOMAIN task : task[i].state = "COMMITTED" /\ task[i].acq = 2
    /\ Len(task) = NumRuns + 1
    /\ Cardinality({c \in Conns : conns[c].owner \in {0} \cup DOMAIN task}) = 1
    /\ outcome = "resolved"

\* two calls wait for the connection while the third holds it
C38_WitnessWaiting ==
    \E i \in DOMAIN task :
        /\ HeldBy(i) # {}
        /\ \A j \in DOMAIN task \ {i} :
              task[j].step = "acquire" /\ task[j].state = "INSERT_ISSUED"
        /\ \A c \in Conns : conns[c].owner # 0

====
